---- MODULE Spec2Model ----
(***************************************************************************)
(* State-machine model of the webfirmsolutions marketing site:             *)
(*   - the client translation service with language detection             *)
(*     (TranslationService, AppComponent, LanguageSelectorComponent),      *)
(*   - the client contact pipeline (CaptchaService, MessageService,        *)
(*     ContactComponent),                                                   *)
(*   - the contact backend (server/server.js).                             *)
(* Strings that the code splits or substitutes into are modelled as        *)
(* sequences of tokens, strings that it trims, parses or changes case of   *)
(* as sequences of characters; everything else is a plain string.          *)
(***************************************************************************)
EXTENDS Naturals, Integers, Sequences, FiniteSets, Bags, TLC

NULL == "null"

(***************************************************************************)
(* Bounds of the model.                                                    *)
(***************************************************************************)
MaxReloads == 1
MaxSelections == 1

(***************************************************************************)
(* TranslationService: configuration.                                      *)
(***************************************************************************)
supportedLanguages == <<"en", "ro", "fr", "de", "uk">>

defaultLanguage == "en"

Supported == {supportedLanguages[i] : i \in 1..Len(supportedLanguages)}

countryToLanguage ==
  [c \in {"RO", "MD", "FR", "BE", "CH", "CA", "LU", "DE", "AT", "UA",
          "US", "GB", "AU", "NZ", "IE"} |->
     CASE c \in {"RO", "MD"} -> "ro"
       [] c \in {"FR", "BE", "CH", "CA", "LU"} -> "fr"
       [] c \in {"DE", "AT"} -> "de"
       [] c = "UA" -> "uk"
       [] OTHER -> "en"]

timezoneToCountry ==
  [z \in {"Europe/Bucharest", "Europe/Chisinau", "Europe/Paris",
          "Europe/Berlin", "Europe/Vienna", "Europe/Kiev", "Europe/Kyiv",
          "America/New_York", "America/Los_Angeles", "America/Chicago",
          "Europe/London"} |->
     CASE z = "Europe/Bucharest" -> "RO"
       [] z = "Europe/Chisinau" -> "MD"
       [] z = "Europe/Paris" -> "FR"
       [] z = "Europe/Berlin" -> "DE"
       [] z = "Europe/Vienna" -> "AT"
       [] z \in {"Europe/Kiev", "Europe/Kyiv"} -> "UA"
       [] z = "Europe/London" -> "GB"
       [] OTHER -> "US"]

\* The three geolocation services of detectCountry, in their listed order.
GeoApis == <<"ipapi.co", "ip-api.com", "ipwhois.app">>

(***************************************************************************)
(* Inputs of the environment, drawn from small sets.                       *)
(***************************************************************************)
\* Country codes a geolocation service may answer with ("JP" is unmapped).
GeoCountries == {"RO", "US", "JP"}

\* Time zones of the browser ("Asia/Tokyo" is not in timezoneToCountry).
Timezones == {"Europe/Bucharest", "Asia/Tokyo"}

\* navigator.language values, as token sequences split at "-".
NavigatorLanguages == {<<"fr", "-", "FR">>, <<"ja", "-", "JP">>}

\* The browsers visited with: time zone and navigator.language.
Browsers ==
  {<<"Europe/Bucharest", <<"fr", "-", "FR">>>>,
   <<"Asia/Tokyo", <<"fr", "-", "FR">>>>,
   <<"Asia/Tokyo", <<"ja", "-", "JP">>>>}

\* Languages offered by the language menu: languageOptions filtered by the
\* supported languages (the menu has no entry for "uk").
languageOptions == <<"en", "ro", "fr", "es", "de">>

(***************************************************************************)
(* Strings as token sequences.                                             *)
(***************************************************************************)
\* String.prototype.split(sep): the segments between the separators.
RECURSIVE Split(_, _)
Split(s, sep) ==
  IF s = <<>> THEN << <<>> >>
  ELSE LET rest == Split(Tail(s), sep) IN
       IF Head(s) = sep THEN << <<>> >> \o rest
       ELSE << <<Head(s)>> \o Head(rest) >> \o Tail(rest)

\* text.replace(new RegExp(`{{${param}}}`, 'g'), value)
RECURSIVE ReplaceParam(_, _, _)
ReplaceParam(text, param, value) ==
  IF text = <<>> THEN <<>>
  ELSE IF Len(text) >= 3 /\ text[1] = "{{" /\ text[2] = param /\ text[3] = "}}"
       THEN <<value>> \o ReplaceParam(SubSeq(text, 4, Len(text)), param, value)
       ELSE <<Head(text)>> \o ReplaceParam(Tail(text), param, value)

(***************************************************************************)
(* Translation dictionaries (the /assets/i18n/{lang}.json responses).      *)
(***************************************************************************)
StrNode(text) == [kind |-> "string", text |-> text, children |-> <<>>]

ObjNode(children) == [kind |-> "object", text |-> <<>>, children |-> children]

\* A value that is neither a string nor a plain mapping (a function object).
FnNode == [kind |-> "function", text |-> <<>>, children |-> <<>>]

EmptyDict == ObjNode(<<>>)

\* The dictionary served for a language; the texts carry the language so
\* that two languages never share a dictionary.
Dict(language) ==
  ObjNode((<<"navigation">> :> ObjNode(<<"home">> :> StrNode(<<"Home", language>>)))
       @@ (<<"footer">> :> ObjNode(<<"copyright">> :>
             StrNode(<<"(c)", "{{", "year", "}}", language>>)))
       @@ (<<"hero">> :> ObjNode(<<"title">> :> StrNode(<<"Title", language>>))))

\* Members every object inherits from Object.prototype: `key in obj` and
\* obj[key] find them on any object literal.
ObjectPrototypeKeys == {<<"constructor">>, <<"toString">>}

\* Key paths asked of translate: a loaded leaf, a key with a placeholder,
\* a non-string node, an absent key with and without a hardcoded fallback,
\* a path through a string, the empty path and an inherited member name.
KeyPaths ==
  { <<"navigation", ".", "home">>,
    <<"footer", ".", "copyright">>,
    <<"navigation">>,
    <<"navigation", ".", "menu">>,
    <<"contact", ".", "modal", ".", "success">>,
    <<"hero", ".", "title", ".", "x">>,
    <<"hero", ".", "titleEnd">>,
    <<>>,
    <<"constructor">> }

\* Parameter objects passed to translate; NoParams is the omitted argument.
NoParams == <<>>

YearParams == <<[name |-> "year", value |-> "2024"]>>

\* The calls of translate: every key path without parameters, and with a
\* parameter the placeholder key, an absent key and an inherited member name.
TranslateCalls ==
  {<<k, NoParams>> : k \in KeyPaths}
  \cup {<<k, YearParams>> : k \in {<<"footer", ".", "copyright">>,
                                   <<"navigation", ".", "menu">>,
                                   <<"constructor">>}}

(***************************************************************************)
(* TranslationService.translate and its helpers.                           *)
(***************************************************************************)
\* fallbackMap of getFallbackText (a representative part of the table).
fallbackMap ==
  (<<"navigation", ".", "menu">> :> <<"Main navigation">>)
  @@ (<<"footer", ".", "copyright">> :>
        <<"(c)", "{{", "year", "}}", "Web Firm Solutions">>)
  @@ (<<"hero", ".", "title">> :> <<"Transform Your Ideas into">>)
  @@ (<<"hero", ".", "titleEnd">> :> <<"Web Experiences">>)

\* The per-language tables of the language-branched getFallbackText.
branchedFallbackMap(language) ==
  CASE language = "ro" ->
         (<<"navigation", ".", "menu">> :> <<"Navigare principala">>)
         @@ (<<"footer", ".", "copyright">> :>
               <<"(c)", "{{", "year", "}}", "Toate drepturile rezervate">>)
         @@ (<<"hero", ".", "title">> :> <<"Transforma-ti Ideile in">>)
         @@ (<<"hero", ".", "titleEnd">> :> <<>>)
    [] language = "fr" ->
         (<<"navigation", ".", "menu">> :> <<"Navigation principale">>)
         @@ (<<"footer", ".", "copyright">> :>
               <<"(c)", "{{", "year", "}}", "Tous droits reserves">>)
         @@ (<<"hero", ".", "title">> :> <<"Transformez vos idees en">>)
         @@ (<<"hero", ".", "titleEnd">> :> <<>>)
    [] language = "uk" ->
         (<<"navigation", ".", "menu">> :> <<"Holovne menyu">>)
         @@ (<<"footer", ".", "copyright">> :>
               <<"(c)", "{{", "year", "}}", "Vsi prava zakhyshcheni">>)
         @@ (<<"hero", ".", "title">> :> <<"Peretvorit svoi idei v">>)
         @@ (<<"hero", ".", "titleEnd">> :> <<"Veb-dosvidy">>)
    [] language = "de" ->
         (<<"navigation", ".", "menu">> :> <<"Hauptnavigation">>)
         @@ (<<"footer", ".", "copyright">> :>
               <<"(c)", "{{", "year", "}}", "Alle Rechte vorbehalten">>)
         @@ (<<"hero", ".", "title">> :> <<"Verwandeln Sie Ihre Ideen in">>)
         @@ (<<"hero", ".", "titleEnd">> :> <<"Web-Erlebnisse">>)
    [] OTHER -> fallbackMap

\* map[keyPath] || keyPath for an object literal `map`: an own entry, or a
\* member inherited from Object.prototype, is returned when it is truthy.
LookupOrKey(map, keyPath) ==
  IF keyPath \in DOMAIN map /\ map[keyPath] # <<>> THEN StrNode(map[keyPath])
  ELSE IF keyPath \notin DOMAIN map /\ keyPath \in ObjectPrototypeKeys THEN FnNode
  ELSE StrNode(keyPath)

getFallbackText(keyPath) == LookupOrKey(fallbackMap, keyPath)

getFallbackTextBranched(language, keyPath) ==
  LookupOrKey(branchedFallbackMap(language), keyPath)

\* `key in current` and current[key] on a dictionary node.
HasKey(node, key) ==
  node.kind = "object" /\ (key \in DOMAIN node.children \/ key \in ObjectPrototypeKeys)

GetKey(node, key) ==
  IF key \in DOMAIN node.children THEN node.children[key] ELSE FnNode

\* The for-loop of getTranslationByKey; the result is the node reached, or
\* a node of kind "missing" when a segment cannot be followed.
RECURSIVE WalkKeys(_, _)
WalkKeys(current, keys) ==
  IF keys = <<>> THEN current
  ELSE IF HasKey(current, Head(keys))
       THEN WalkKeys(GetKey(current, Head(keys)), Tail(keys))
       ELSE [kind |-> "missing", text |-> <<>>, children |-> <<>>]

getTranslationByKeyWith(translations, keyPath, fallback) ==
  LET keys == Split(keyPath, ".") IN
  IF DOMAIN translations.children = {} THEN fallback
  ELSE LET current == WalkKeys(translations, keys) IN
       IF current.kind = "string" THEN current ELSE fallback

getTranslationByKey(translations, keyPath) ==
  getTranslationByKeyWith(translations, keyPath, getFallbackText(keyPath))

getTranslationByKeyBranched(translations, language, keyPath) ==
  getTranslationByKeyWith(translations, keyPath,
                          getFallbackTextBranched(language, keyPath))

\* The reduce over Object.keys(params): text.replace on a value that is not
\* a string raises a TypeError.
RECURSIVE ReduceParams(_, _)
ReduceParams(node, params) ==
  IF params = <<>> THEN node
  ELSE IF node.kind # "string"
       THEN [kind |-> "throws", text |-> <<>>, children |-> <<>>]
       ELSE ReduceParams(StrNode(ReplaceParam(node.text, Head(params).name,
                                              Head(params).value)),
                         Tail(params))

translateFrom(translation, params) ==
  IF params = NoParams THEN translation ELSE ReduceParams(translation, params)

translate(translations, keyPath, params) ==
  translateFrom(getTranslationByKey(translations, keyPath), params)

translateBranched(translations, language, keyPath, params) ==
  translateFrom(getTranslationByKeyBranched(translations, language, keyPath), params)

\* What a caller of translate can display: a string that is not empty.
IsNonEmptyString(node) == node.kind = "string" /\ node.text # <<>>

(***************************************************************************)
(* Client state of the translation subsystem.                              *)
(***************************************************************************)
VARIABLES
  localStorageLanguage,   \* localStorage['webfirm_language'] or NULL
  sessionAutoDetected,    \* sessionStorage['autoDetectedLanguage'] or NULL
  timezone,               \* Intl timeZone of the browser
  navigatorLanguage,      \* navigator.language
  phase,                  \* "unloaded" before the page boots, then "running"
  currentLanguageSignal,
  translationsSignal,
  isLoadingSignal,
  requests,               \* bag of dictionary requests in flight
  pcDetect,               \* position of detectAndSetLanguageByCountry
  selectorInit,           \* LanguageSelectorComponent.ngOnInit has run
  geoCalls,               \* geolocation requests issued since the page booted
  bootStored,             \* stored preference found when the page booted
  fetchFailed,            \* a dictionary fetch failed since the page booted
  selections,             \* menu selections since the page booted
  everUserSelected,       \* the user has picked a language in the menu
  sessionDetectDone,      \* a country detection has run to its end this session
  reloads,                \* page loads after the first
  lastRequested,          \* language of the load started last, NULL before
  i18nEvent               \* the last operation and what it returned

i18nVars ==
  <<localStorageLanguage, sessionAutoDetected, timezone, navigatorLanguage,
    phase, currentLanguageSignal, translationsSignal, isLoadingSignal,
    requests, pcDetect, selectorInit, geoCalls, bootStored, fetchFailed,
    selections, everUserSelected, sessionDetectDone, reloads, lastRequested,
    i18nEvent>>

(***************************************************************************)
(* Client state of the contact form (ContactComponent, CaptchaService,     *)
(* MessageService).                                                        *)
(***************************************************************************)
VARIABLES
  currentChallenge,       \* CaptchaService.currentChallenge
  captchaChallenge,       \* ContactComponent.captchaChallenge
  nextChallengeId,        \* the next id generateId will hand out
  formData,               \* ContactComponent.formData
  honeypotField,          \* ContactComponent.honeypotField
  isModalOpen,
  isSubmitting,
  inFlight,               \* submissions whose Observable has not ended
  submissions,            \* calls of MessageService.submitMessage so far
  postsSent,              \* HTTP POSTs issued to the backend so far
  localBackup,            \* localStorage['webfirm_messages_backup']
  attemptedIds,           \* challenge ids validateAnswer has been called with
  apiAvailable,           \* API_BASE_URL points at a deployed backend
  contactEvent            \* the last operation and what it did

contactVars ==
  <<currentChallenge, captchaChallenge, nextChallengeId, formData,
    honeypotField, isModalOpen, isSubmitting, inFlight, submissions,
    postsSent, localBackup, attemptedIds, apiAvailable, contactEvent>>

(***************************************************************************)
(* State of the backend (server.js).                                       *)
(***************************************************************************)
VARIABLES
  messagesFile,           \* content of data/messages.json
  captchaStore,           \* the captchaStore map, as a set of entries
  nextCaptchaId,          \* the next id generateCaptcha will hand out
  clock,                  \* Date.now()
  hits,                   \* the limiter's count of requests per IP
  handlers,               \* bag of request handlers suspended at an await
  started,                \* POST /api/contact handlers that reached newMessage
  acked,                  \* messages whose POST was answered 200
  readAcked,              \* ids whose mark-read was answered 200
  usedCaptchas,           \* captcha ids validateCaptcha has been called with
  serverEvent             \* the last request or step and its response

serverVars ==
  <<messagesFile, captchaStore, nextCaptchaId, clock, hits, handlers, started,
    acked, readAcked, usedCaptchas, serverEvent>>

(***************************************************************************)
(* State of the SEO metadata applier (SEOService and its callers in        *)
(* AppComponent).                                                          *)
(***************************************************************************)
VARIABLES
  head,                   \* the link elements of document.head, in order
  seoRequests,            \* bag of SEO descriptor fetches in flight
  seoMeta,                \* language of the descriptor applied to the head
  jsonLd,                 \* the JSON-LD script tags of the document, in order
  lastWritten,            \* per schema group, the data written last (or NULL)
  schemaWrites,           \* structured-data calls made by components so far
  routerUrl,              \* router.url
  navigations,            \* NavigationEnd events so far
  seoEvent                \* the last SEO step

seoVars ==
  <<head, seoRequests, seoMeta, jsonLd, lastWritten, schemaWrites, routerUrl,
    navigations, seoEvent>>

(***************************************************************************)
(* MessageService as the admin page uses it when no backend is configured. *)
(***************************************************************************)
VARIABLES
  messagesSubject,        \* value of the BehaviorSubject behind messages$
  savedLog,               \* every message handed to saveMessageLocally, in order
  markedIds,              \* ids that a successful markAsRead was called with
  backupEvent             \* the last admin operation and its outcome

backupVars == <<messagesSubject, savedLog, markedIds, backupEvent>>

(***************************************************************************)
(* A TranslatePipe instance of a rendered template.                        *)
(***************************************************************************)
VARIABLES
  pipe,                   \* the fields of the pipe, NoPipe before it exists
  pipeEvent               \* the last transform call and what it returned

pipeVars == <<pipe, pipeEvent>>

I18nEvent(op) ==
  [op |-> op, lang |-> NULL, root |-> NULL, country |-> NULL,
   keyPath |-> <<>>, params |-> NoParams, result |-> EmptyDict,
   resultBranched |-> EmptyDict, resolved |-> NULL, api |-> 0,
   emitted |-> <<>>]

Request(language, root) == [lang |-> language, root |-> root]

RECURSIVE BagOfSeq(_)
BagOfSeq(reqs) ==
  IF reqs = <<>> THEN EmptyBag ELSE SetToBag({Head(reqs)}) (+) BagOfSeq(Tail(reqs))

isLanguageSupported(language) == language \in Supported

getStoredLanguageOf(stored) ==
  IF stored # NULL /\ isLanguageSupported(stored) THEN stored ELSE NULL

getStoredLanguage == getStoredLanguageOf(localStorageLanguage)

\* navigator.language.split('-')[0], when it is a supported language.
getBrowserLanguage ==
  LET browserLang == Head(Split(navigatorLanguage, "-")) IN
  IF \E l \in Supported : browserLang = <<l>>
  THEN CHOOSE l \in Supported : browserLang = <<l>>
  ELSE NULL

\* getCurrentLanguage, reading the two storages as they are at the call.
getCurrentLanguageOf(stored, autoDetected) ==
  IF getStoredLanguageOf(stored) # NULL THEN getStoredLanguageOf(stored)
  ELSE IF autoDetected # NULL /\ isLanguageSupported(autoDetected) THEN autoDetected
  ELSE IF getBrowserLanguage # NULL THEN getBrowserLanguage
  ELSE defaultLanguage

\* The requests loadLanguage(language) puts in flight.
loadLanguage(language) == <<Request(language, language)>>

\* The language of the load started last, after the loads reqs have been
\* started in their order.
LastStarted(reqs, before) ==
  IF reqs = <<>> THEN before ELSE reqs[Len(reqs)].lang

\* The requests setLanguage(language) puts in flight, given the language
\* that is current at the call.
setLanguage(language, current) ==
  IF ~isLanguageSupported(language) THEN <<>>
  ELSE IF language = current THEN <<>>
  ELSE loadLanguage(language)

\* What the observable returned by setLanguage(language) emits at the call:
\* of(false) for an unsupported language, of(true) when the language is the
\* current one, nothing yet when a load was started.
setLanguageEmits(language, current) ==
  IF ~isLanguageSupported(language) THEN <<FALSE>>
  ELSE IF language = current THEN <<TRUE>>
  ELSE <<>>

\* What the observable of loadLanguage emits when its request has settled
\* and no further request was started: whatever tap or catchError passed
\* on, switchMap(() => of(true)) replaces it by true.
loadLanguageEmits(retry) == IF retry = <<>> THEN <<TRUE>> ELSE <<>>

\* A lookup that ignores the table.
LanguageForCountry_AlwaysDefault(countryCode) == defaultLanguage

\* this.countryToLanguage[countryCode] || this.defaultLanguage
LanguageForCountry(countryCode) ==
  IF countryCode \in DOMAIN countryToLanguage
  THEN countryToLanguage[countryCode]
  ELSE defaultLanguage

\* The tail of detectCountry: the country guessed from the time zone.
CountryOfTimezone(z) ==
  IF z \in DOMAIN timezoneToCountry THEN timezoneToCountry[z] ELSE NULL

\* AppComponent.initializeTranslations after the await: the requests of
\* setLanguage(getCurrentLanguage()).
InitializeTranslationsTail(stored, autoDetected, current) ==
  setLanguage(getCurrentLanguageOf(stored, autoDetected), current)

\* What the subscriber in initializeTranslations is handed at the call.
InitializeTranslationsEmits(stored, autoDetected, current) ==
  setLanguageEmits(getCurrentLanguageOf(stored, autoDetected), current)

(***************************************************************************)
(* TranslatePipe (src/app/pipes/translate.pipe.ts).                        *)
(***************************************************************************)
NoPipe == [exists |-> FALSE, lastKey |-> <<>>, lastParams |-> NoParams,
           lastValue |-> StrNode(<<>>), currentLanguage |-> <<>>]

\* The subscriber of currentLanguage$ in the pipe's constructor: the cache
\* is reset when the emitted language is not the one seen last.
LanguageEmitted(p, lang) ==
  IF ~p.exists THEN p
  ELSE IF p.currentLanguage # lang
       THEN [p EXCEPT !.currentLanguage = lang, !.lastKey = <<>>,
                      !.lastValue = StrNode(<<>>), !.lastParams = NoParams]
       ELSE p

\* The constructor: field initialisers, then the subscription, to which the
\* BehaviorSubject hands its current value at once.
NewPipe(subjectValue) ==
  LanguageEmitted([NoPipe EXCEPT !.exists = TRUE], subjectValue)

\* The fields of the pipe after transform(key, params).
transform(p, translations, key, params) ==
  IF key # p.lastKey \/ params # p.lastParams
  THEN [p EXCEPT !.lastKey = key, !.lastParams = params,
                 !.lastValue = translate(translations, key, params)]
  ELSE p

(***************************************************************************)
(* Operations of the translation subsystem.                                *)
(***************************************************************************)
\* The positions of detectCountry while it awaits GeoApis[i].
pcAwait == <<"api1", "api2", "api3">>

\* The constructor's target: getStoredLanguage() || defaultLanguage.
ConstructorTarget(stored) ==
  IF getStoredLanguageOf(stored) # NULL THEN getStoredLanguageOf(stored)
  ELSE defaultLanguage

\* Detection that does not look at the stored preference.
DetectSkips_IgnoresStored(stored, autoDetected) == autoDetected # NULL

\* The two early returns of detectAndSetLanguageByCountry.
DetectSkips(stored, autoDetected) ==
  getStoredLanguageOf(stored) # NULL \/ autoDetected # NULL

\* An error handler without the fallback to the default language.
loadLanguageError_NoFallback(language, root) == <<>>

\* The catchError of loadLanguage: the requests it puts in flight.
loadLanguageError(language, root) ==
  IF language # defaultLanguage THEN <<Request(defaultLanguage, root)>> ELSE <<>>

\* The page boots: the TranslationService constructor starts the first load,
\* then AppComponent.ngOnInit runs initializeTranslations up to its first
\* await on a geolocation response (or to its end when detection returns
\* at once).
Bootstrap ==
  /\ phase = "unloaded"
  /\ UNCHANGED <<contactVars, serverVars, seoVars, backupVars, pipeEvent>>
  /\ pipe' = NewPipe(currentLanguageSignal)
  /\ LET skip == DetectSkips(localStorageLanguage, sessionAutoDetected)
         tail == IF skip
                 THEN InitializeTranslationsTail(localStorageLanguage,
                                                 sessionAutoDetected,
                                                 currentLanguageSignal)
                 ELSE <<>>
     IN /\ requests' = requests (+)
                       BagOfSeq(loadLanguage(ConstructorTarget(localStorageLanguage))
                                \o tail)
        /\ lastRequested' =
             LastStarted(loadLanguage(ConstructorTarget(localStorageLanguage))
                         \o tail, lastRequested)
        /\ pcDetect' = IF skip THEN "skipped" ELSE pcAwait[1]
        /\ geoCalls' = IF skip THEN 0 ELSE 1
  /\ phase' = "running"
  /\ isLoadingSignal' = TRUE
  /\ bootStored' = getStoredLanguage
  /\ i18nEvent' = [I18nEvent("bootstrap") EXCEPT
                     !.emitted =
                        IF DetectSkips(localStorageLanguage, sessionAutoDetected)
                        THEN InitializeTranslationsEmits(localStorageLanguage,
                                                         sessionAutoDetected,
                                                         currentLanguageSignal)
                        ELSE <<>>]
  /\ UNCHANGED <<localStorageLanguage, sessionAutoDetected, timezone,
                 navigatorLanguage, currentLanguageSignal, translationsSignal,
                 selectorInit, fetchFailed, selections, everUserSelected,
                 sessionDetectDone, reloads>>

\* detectAndSetLanguageByCountry after detectCountry has returned
\* countryCode (NULL when nothing was found), followed by the rest of
\* initializeTranslations.
DetectFinish(countryCode, api) ==
  LET language == LanguageForCountry(countryCode)
      autoDetected == IF countryCode # NULL THEN language ELSE sessionAutoDetected
      reqs == (IF countryCode # NULL
               THEN setLanguage(language, currentLanguageSignal) ELSE <<>>)
              \o InitializeTranslationsTail(localStorageLanguage, autoDetected,
                                            currentLanguageSignal)
  IN /\ sessionAutoDetected' = autoDetected
     /\ requests' = requests (+) BagOfSeq(reqs)
     /\ lastRequested' = LastStarted(reqs, lastRequested)
     /\ isLoadingSignal' = IF reqs # <<>> THEN TRUE ELSE isLoadingSignal
     /\ pcDetect' = "done"
     /\ sessionDetectDone' = TRUE
     /\ i18nEvent' = [I18nEvent("detected") EXCEPT
                        !.country = countryCode,
                        !.lang = IF countryCode # NULL THEN language ELSE NULL,
                        !.resolved = getCurrentLanguageOf(localStorageLanguage,
                                                          autoDetected),
                        !.api = api,
                        !.emitted =
                           (IF countryCode # NULL
                            THEN setLanguageEmits(language, currentLanguageSignal)
                            ELSE <<>>)
                           \o InitializeTranslationsEmits(localStorageLanguage,
                                                          autoDetected,
                                                          currentLanguageSignal)]
     /\ UNCHANGED geoCalls

\* A geolocation service answers with a country code.
GeoFound(countryCode) ==
  /\ phase = "running"
  /\ UNCHANGED <<contactVars, serverVars, seoVars, backupVars, pipeVars>>
  /\ \E i \in 1..Len(GeoApis) :
       /\ pcDetect = pcAwait[i]
       /\ DetectFinish(countryCode, i)
  /\ UNCHANGED <<localStorageLanguage, timezone, navigatorLanguage, phase,
                 currentLanguageSignal, translationsSignal, selectorInit,
                 bootStored, fetchFailed, selections, everUserSelected, reloads>>

\* A geolocation request times out, fails, is not OK or carries no country
\* code: the next service is asked, and after the last one the time zone.
GeoFailed ==
  /\ phase = "running"
  /\ UNCHANGED <<contactVars, serverVars, seoVars, backupVars, pipeVars>>
  /\ \E i \in 1..Len(GeoApis) :
       /\ pcDetect = pcAwait[i]
       /\ IF i < Len(GeoApis)
          THEN /\ pcDetect' = pcAwait[i + 1]
               /\ geoCalls' = geoCalls + 1
               /\ i18nEvent' = I18nEvent("geoFailed")
               /\ UNCHANGED <<sessionAutoDetected, requests, isLoadingSignal,
                              sessionDetectDone, lastRequested>>
          ELSE DetectFinish(CountryOfTimezone(timezone), 0)
  /\ UNCHANGED <<localStorageLanguage, timezone, navigatorLanguage, phase,
                 currentLanguageSignal, translationsSignal, selectorInit,
                 bootStored, fetchFailed, selections, everUserSelected, reloads>>

LoadedLanguage_LastRequested(r, last) == last

\* The language the tap of loadLanguage installs: the one its own request
\* was made for, whatever load was started last.
LoadedLanguage(r, last) == r.lang

\* The tap of loadLanguage: the response for request r arrives.
LoadSuccess(r) ==
  /\ phase = "running"
  /\ UNCHANGED <<contactVars, serverVars, seoVars, backupVars, pipeEvent>>
  /\ pipe' = LanguageEmitted(pipe, LoadedLanguage(r, lastRequested))
  /\ BagIn(r, requests)
  /\ requests' = requests (-) SetToBag({r})
  /\ translationsSignal' = Dict(LoadedLanguage(r, lastRequested))
  /\ currentLanguageSignal' = LoadedLanguage(r, lastRequested)
  /\ localStorageLanguage' = LoadedLanguage(r, lastRequested)
  /\ isLoadingSignal' = FALSE
  /\ i18nEvent' = [I18nEvent("loadSuccess") EXCEPT
                     !.lang = r.lang, !.root = r.root,
                     !.emitted = loadLanguageEmits(<<>>)]
  /\ UNCHANGED <<sessionAutoDetected, timezone, navigatorLanguage, phase,
                 pcDetect, selectorInit, geoCalls, bootStored, fetchFailed,
                 selections, everUserSelected, sessionDetectDone, reloads,
                 lastRequested>>

\* The catchError of loadLanguage: request r fails.
LoadError(r) ==
  /\ phase = "running"
  /\ UNCHANGED <<contactVars, serverVars, seoVars, backupVars, pipeVars>>
  /\ BagIn(r, requests)
  /\ LET retry == loadLanguageError(r.lang, r.root) IN
       /\ requests' = (requests (-) SetToBag({r})) (+) BagOfSeq(retry)
       /\ lastRequested' = LastStarted(retry, lastRequested)
       /\ isLoadingSignal' = (retry # <<>>)
  /\ fetchFailed' = TRUE
  /\ i18nEvent' = [I18nEvent("loadError") EXCEPT
                     !.lang = r.lang, !.root = r.root,
                     !.emitted = loadLanguageEmits(loadLanguageError(r.lang, r.root))]
  /\ UNCHANGED <<localStorageLanguage, sessionAutoDetected, timezone,
                 navigatorLanguage, phase, currentLanguageSignal,
                 translationsSignal, pcDetect, selectorInit, geoCalls,
                 bootStored, selections, everUserSelected, sessionDetectDone,
                 reloads>>

\* LanguageSelectorComponent.ngOnInit: autoDetectLanguage().
LanguageSelectorInit ==
  /\ phase = "running"
  /\ UNCHANGED <<contactVars, serverVars, seoVars, backupVars, pipeVars>>
  /\ ~selectorInit
  /\ selectorInit' = TRUE
  /\ LET preferredLang ==
           IF getStoredLanguage # NULL THEN getStoredLanguage
           ELSE IF getBrowserLanguage # NULL THEN getBrowserLanguage
           ELSE defaultLanguage
         reqs == setLanguage(preferredLang, currentLanguageSignal)
     IN /\ requests' = requests (+) BagOfSeq(reqs)
        /\ lastRequested' = LastStarted(reqs, lastRequested)
        /\ isLoadingSignal' = IF reqs # <<>> THEN TRUE ELSE isLoadingSignal
  /\ i18nEvent' = [I18nEvent("selectorInit") EXCEPT
                     !.emitted =
                        setLanguageEmits(
                          IF getStoredLanguage # NULL THEN getStoredLanguage
                          ELSE IF getBrowserLanguage # NULL THEN getBrowserLanguage
                          ELSE defaultLanguage,
                          currentLanguageSignal)]
  /\ UNCHANGED <<localStorageLanguage, sessionAutoDetected, timezone,
                 navigatorLanguage, phase, currentLanguageSignal,
                 translationsSignal, pcDetect, geoCalls, bootStored,
                 fetchFailed, selections, everUserSelected, sessionDetectDone,
                 reloads>>

\* LanguageSelectorComponent.selectLanguage: the user picks a menu entry.
SelectLanguage(language) ==
  /\ phase = "running"
  /\ UNCHANGED <<contactVars, serverVars, seoVars, backupVars, pipeVars>>
  /\ selections < MaxSelections
  /\ selections' = selections + 1
  /\ IF isLoadingSignal
     THEN UNCHANGED <<requests, isLoadingSignal, everUserSelected,
                      lastRequested>>
     ELSE LET reqs == setLanguage(language, currentLanguageSignal) IN
            /\ requests' = requests (+) BagOfSeq(reqs)
            /\ lastRequested' = LastStarted(reqs, lastRequested)
            /\ isLoadingSignal' = IF reqs # <<>> THEN TRUE ELSE isLoadingSignal
            /\ everUserSelected' = TRUE
  /\ i18nEvent' = [I18nEvent("selectLanguage") EXCEPT
                     !.lang = language,
                     !.emitted = IF isLoadingSignal THEN <<>>
                                 ELSE setLanguageEmits(language,
                                                       currentLanguageSignal)]
  /\ UNCHANGED <<localStorageLanguage, sessionAutoDetected, timezone,
                 navigatorLanguage, phase, currentLanguageSignal,
                 translationsSignal, pcDetect, selectorInit, geoCalls,
                 bootStored, fetchFailed, sessionDetectDone, reloads>>

\* A template or component calls translate(keyPath, params).
Translate(keyPath, params) ==
  /\ phase = "running"
  /\ UNCHANGED <<contactVars, serverVars, seoVars, backupVars, pipeVars>>
  /\ i18nEvent' = [I18nEvent("translate") EXCEPT
                     !.keyPath = keyPath,
                     !.params = params,
                     !.result = translate(translationsSignal, keyPath, params),
                     !.resultBranched =
                        translateBranched(translationsSignal,
                                          currentLanguageSignal, keyPath, params)]
  /\ UNCHANGED <<localStorageLanguage, sessionAutoDetected, timezone,
                 navigatorLanguage, phase, currentLanguageSignal,
                 translationsSignal, isLoadingSignal, requests, pcDetect,
                 selectorInit, geoCalls, bootStored, fetchFailed, selections,
                 everUserSelected, sessionDetectDone, reloads, lastRequested>>

PipeEvent(op) ==
  [op |-> op, key |-> <<>>, params |-> NoParams, value |-> StrNode(<<>>),
   expected |-> StrNode(<<>>), loaded |-> FALSE]

\* Change detection evaluates {{ key | translate: params }}.
PipeTransform(key, params) ==
  /\ phase = "running"
  /\ pipe.exists
  /\ UNCHANGED <<i18nVars, contactVars, serverVars, seoVars, backupVars>>
  /\ pipe' = transform(pipe, translationsSignal, key, params)
  /\ pipeEvent' = [PipeEvent("transform") EXCEPT
                     !.key = key,
                     !.params = params,
                     !.value = pipe'.lastValue,
                     !.expected = translate(translationsSignal, key, params),
                     !.loaded = translationsSignal # EmptyDict]

\* The page is left (reload or a new tab): everything held in memory is
\* dropped, requests in flight are abandoned; localStorage stays, and
\* sessionStorage stays unless a new session starts.
Unload(newSession) ==
  /\ phase = "running"
  /\ UNCHANGED <<contactVars, serverVars, seoVars, backupVars, pipeEvent>>
  /\ pipe' = NoPipe
  /\ reloads < MaxReloads
  /\ reloads' = reloads + 1
  /\ phase' = "unloaded"
  /\ currentLanguageSignal' = defaultLanguage
  /\ translationsSignal' = EmptyDict
  /\ isLoadingSignal' = FALSE
  /\ requests' = EmptyBag
  /\ lastRequested' = NULL
  /\ pcDetect' = "idle"
  /\ selectorInit' = FALSE
  /\ geoCalls' = 0
  /\ bootStored' = NULL
  /\ fetchFailed' = FALSE
  /\ selections' = 0
  /\ sessionAutoDetected' = IF newSession THEN NULL ELSE sessionAutoDetected
  /\ sessionDetectDone' = IF newSession THEN FALSE ELSE sessionDetectDone
  /\ i18nEvent' = I18nEvent("unload")
  /\ UNCHANGED <<localStorageLanguage, timezone, navigatorLanguage,
                 everUserSelected>>

Reload == Unload(FALSE)

NewSession == Unload(TRUE)

I18nInit ==
  /\ localStorageLanguage = NULL
  /\ sessionAutoDetected = NULL
  /\ timezone \in Timezones
  /\ navigatorLanguage \in NavigatorLanguages
  /\ <<timezone, navigatorLanguage>> \in Browsers
  /\ phase = "unloaded"
  /\ currentLanguageSignal = defaultLanguage
  /\ translationsSignal = EmptyDict
  /\ isLoadingSignal = FALSE
  /\ requests = EmptyBag
  /\ pcDetect = "idle"
  /\ selectorInit = FALSE
  /\ geoCalls = 0
  /\ bootStored = NULL
  /\ fetchFailed = FALSE
  /\ selections = 0
  /\ everUserSelected = FALSE
  /\ sessionDetectDone = FALSE
  /\ reloads = 0
  /\ lastRequested = NULL
  /\ i18nEvent = I18nEvent("none")
  /\ pipe = NoPipe
  /\ pipeEvent = PipeEvent("none")

MenuLanguages ==
  {languageOptions[i] : i \in 1..Len(languageOptions)} \cap Supported

I18nNext ==
  \/ Bootstrap
  \/ \E c \in GeoCountries : GeoFound(c)
  \/ GeoFailed
  \/ \E r \in BagToSet(requests) : LoadSuccess(r)
  \/ \E r \in BagToSet(requests) : LoadError(r)
  \/ LanguageSelectorInit
  \/ \E l \in MenuLanguages : SelectLanguage(l)
  \/ Reload
  \/ NewSession

\* One page load, with translate called in every state it passes through.
TranslateNext ==
  \/ Bootstrap
  \/ \E r \in BagToSet(requests) : LoadSuccess(r)
  \/ \E r \in BagToSet(requests) : LoadError(r)
  \/ \E l \in MenuLanguages : SelectLanguage(l)
  \/ \E c \in TranslateCalls : Translate(c[1], c[2])

\* Templates rendered through the pipe while dictionaries load.
PipeNext ==
  \/ Bootstrap
  \/ \E r \in BagToSet(requests) : LoadSuccess(r)
  \/ \E r \in BagToSet(requests) : LoadError(r)
  \/ \E l \in MenuLanguages : SelectLanguage(l)
  \/ \E c \in TranslateCalls : PipeTransform(c[1], c[2])

(***************************************************************************)
(* Strings of the contact pipeline are sequences of characters, so that    *)
(* trim, toLowerCase, includes and parseInt are computed.                  *)
(***************************************************************************)
Whitespace == {" "}

RECURSIVE TrimStart(_)
TrimStart(s) ==
  IF s # <<>> /\ Head(s) \in Whitespace THEN TrimStart(Tail(s)) ELSE s

RECURSIVE TrimEnd(_)
TrimEnd(s) ==
  IF s # <<>> /\ s[Len(s)] \in Whitespace
  THEN TrimEnd(SubSeq(s, 1, Len(s) - 1))
  ELSE s

\* String.prototype.trim
Trim(s) == TrimEnd(TrimStart(s))

UpperToLower == [c \in {"A", "B"} |-> IF c = "A" THEN "a" ELSE "b"]

\* String.prototype.toLowerCase
ToLowerCase(s) ==
  [i \in 1..Len(s) |-> IF s[i] \in DOMAIN UpperToLower THEN UpperToLower[s[i]]
                       ELSE s[i]]

\* String.prototype.includes for a one-character needle
Includes(s, c) == \E i \in 1..Len(s) : s[i] = c

Digits == <<"0", "1", "2", "3", "4", "5", "6", "7", "8", "9">>

IsDigit(c) == \E d \in 1..Len(Digits) : Digits[d] = c

DigitValue(c) == (CHOOSE d \in 1..Len(Digits) : Digits[d] = c) - 1

RECURSIVE ParseDigits(_, _)
ParseDigits(s, acc) ==
  IF s = <<>> \/ ~IsDigit(Head(s)) THEN acc
  ELSE ParseDigits(Tail(s), acc * 10 + DigitValue(Head(s)))

\* parseInt(s, 10): leading white space is skipped, a sign is read, then the
\* longest run of digits; NaN when there is no digit.
parseInt(s) ==
  LET t == TrimStart(s)
      signed == t # <<>> /\ Head(t) \in {"-", "+"}
      u == IF signed THEN Tail(t) ELSE t
  IN IF u = <<>> \/ ~IsDigit(Head(u))
     THEN [nan |-> TRUE, value |-> 0]
     ELSE [nan |-> FALSE,
           value |-> IF signed /\ Head(t) = "-" THEN 0 - ParseDigits(u, 0)
                     ELSE ParseDigits(u, 0)]

(***************************************************************************)
(* The contact form on the client.                                         *)
(***************************************************************************)
MaxChallenges == 2
MaxSubmissions == 1

\* CaptchaService.currentChallenge === null
NoChallenge == [id |-> 0, answer |-> 0]

\* Results of generateChallenge's random arithmetic that the model draws.
ChallengeAnswers == {7}

\* What the visitor (or a script) types into the captcha input.
CaptchaInputs == {<<>>, <<"7">>, <<"1", "2">>, <<"x">>}

\* What a script writes into the hidden field.
HoneypotInputs == {<<>>, <<" ">>, <<"b", "o", "t">>}

NameAl == <<"A", "l">>
EmailPlain == <<"a", "@", "b">>
MessageLong == <<"h", "e", "l", "l", "o", " ", "w", "o", "r", "l", "d">>

\* Name, e-mail and message as the visitor types them; before that, and
\* after a successful submission, the three fields are empty.
ClientForms ==
  {[name |-> NameAl, email |-> EmailPlain, message |-> MessageLong]}

EmptyForm == [name |-> <<>>, email |-> <<>>, message |-> <<>>, captcha |-> <<>>]

\* retry(2) in submitMessage
retryCount == 2

\* slice(-100) in saveMessageLocally
localBackupLimit == 100

LastN(s, n) == IF Len(s) <= n THEN s ELSE SubSeq(s, Len(s) - n + 1, Len(s))

ContactEvent(op) ==
  [op |-> op, tripped |-> FALSE, called |-> FALSE, prior |-> FALSE,
   valid |-> FALSE, id |-> 0, toast |-> "none"]

\* CaptchaService.validateAnswer: the returned value and the challenge the
\* service holds afterwards.
validateAnswer(current, userAnswer, challengeId) ==
  IF current = NoChallenge \/ current.id # challengeId
  THEN [result |-> FALSE, challenge |-> current]
  ELSE LET answerStr == Trim(userAnswer) IN
         IF answerStr = <<>>
         THEN [result |-> FALSE, challenge |-> current]
         ELSE LET numericAnswer == parseInt(answerStr) IN
                [result |-> ~numericAnswer.nan
                            /\ numericAnswer.value = current.answer,
                 challenge |-> NoChallenge]

\* CaptchaService.generateChallenge
generateChallenge(answer) == [id |-> nextChallengeId, answer |-> answer]

\* MessageService.saveMessageLocally
saveMessageLocally(backup, form, id) ==
  LastN(Append(backup, [id |-> id, name |-> form.name, email |-> form.email,
                        message |-> form.message, captcha |-> form.captcha,
                        status |-> "new"]),
        localBackupLimit)

HoneypotTripped_Never(honeypot) == FALSE

\* ContactComponent.onSubmit: the honeypot test.
HoneypotTripped(honeypot) == honeypot # <<>> /\ Trim(honeypot) # <<>>

\* ContactComponent.generateNewCaptcha
GenerateNewCaptcha(answer) ==
  /\ nextChallengeId <= MaxChallenges
  /\ currentChallenge' = generateChallenge(answer)
  /\ captchaChallenge' = generateChallenge(answer)
  /\ nextChallengeId' = nextChallengeId + 1

\* MessageService.submitMessage, up to the point where it returns its
\* Observable and the component has subscribed.
SubmitMessage(form, captchaId) ==
  LET n == submissions + 1
      sub == [n |-> n, kind |-> IF apiAvailable THEN "post" ELSE "timer",
              attempt |-> 1, live |-> TRUE, form |-> form,
              payload |-> form, captchaId |-> captchaId]
  IN /\ submissions < MaxSubmissions
     /\ submissions' = n
     /\ inFlight' = inFlight \cup {sub}
     /\ postsSent' = IF apiAvailable THEN postsSent + 1 ELSE postsSent
     /\ localBackup' = IF apiAvailable THEN localBackup
                       ELSE saveMessageLocally(localBackup, form, n)

\* ContactComponent.onSubmit
OnSubmit ==
  LET tripped == HoneypotTripped(honeypotField)
      captchaAnswer == Trim(formData.captcha)
      called == captchaChallenge # NoChallenge /\ captchaAnswer # <<>>
      v == validateAnswer(currentChallenge, captchaAnswer, captchaChallenge.id)
      complete == formData.name # <<>> /\ formData.email # <<>>
                  /\ formData.message # <<>>
      event == [ContactEvent("onSubmit") EXCEPT
                  !.tripped = tripped,
                  !.called = ~tripped /\ called,
                  !.prior = captchaChallenge.id \in attemptedIds,
                  !.valid = ~tripped /\ called /\ v.result,
                  !.id = captchaChallenge.id]
  IN /\ UNCHANGED <<i18nVars, serverVars, seoVars, backupVars, pipeVars>>
     /\ UNCHANGED <<honeypotField, isModalOpen, apiAvailable>>
     /\ IF tripped
        THEN /\ contactEvent' = event
             /\ UNCHANGED <<currentChallenge, captchaChallenge, nextChallengeId,
                            formData, isSubmitting, inFlight, submissions,
                            postsSent, localBackup, attemptedIds>>
        ELSE /\ attemptedIds' = IF called
                                THEN attemptedIds \cup {captchaChallenge.id}
                                ELSE attemptedIds
             /\ IF ~(called /\ v.result)
                THEN /\ \E a \in ChallengeAnswers : GenerateNewCaptcha(a)
                     /\ formData' = [formData EXCEPT !.captcha = <<>>]
                     /\ contactEvent' = [event EXCEPT !.toast = "warning"]
                     /\ UNCHANGED <<isSubmitting, inFlight, submissions,
                                    postsSent, localBackup>>
                ELSE /\ currentChallenge' = v.challenge
                     /\ UNCHANGED <<captchaChallenge, nextChallengeId, formData>>
                     /\ IF complete
                        THEN /\ isSubmitting' = TRUE
                             /\ SubmitMessage(formData, captchaChallenge.id)
                             /\ contactEvent' = event
                        ELSE /\ contactEvent' = [event EXCEPT !.toast = "warning"]
                             /\ UNCHANGED <<isSubmitting, inFlight, submissions,
                                            postsSent, localBackup>>

\* The form object a suspended submission still refers to.
FormOf(p) == IF p.live THEN formData ELSE p.form

\* The submission's Observable emits: the backend answered 200, or the
\* 800 ms timer of the local mode fired.  The tap saves the backup, then the
\* component's next callback runs.
SubmitSucceeds(p) ==
  /\ p \in inFlight
  /\ UNCHANGED <<i18nVars, serverVars, seoVars, backupVars, pipeVars>>
  /\ localBackup' = IF p.kind = "post"
                    THEN saveMessageLocally(localBackup, FormOf(p), p.n)
                    ELSE localBackup
  /\ inFlight' = {[q EXCEPT !.live = FALSE, !.form = FormOf(q)] :
                    q \in inFlight \ {p}}
  /\ formData' = EmptyForm
  /\ isSubmitting' = FALSE
  /\ isModalOpen' = FALSE
  /\ contactEvent' = [ContactEvent("submitted") EXCEPT
                        !.id = p.n, !.toast = "success"]
  /\ UNCHANGED <<currentChallenge, captchaChallenge, nextChallengeId,
                 honeypotField, submissions, postsSent, attemptedIds,
                 apiAvailable>>

\* A POST fails (network error or a status outside 2xx): retry(2) sends it
\* again; after the last attempt the component's error callback runs.
PostFails(p) ==
  /\ p \in inFlight
  /\ p.kind = "post"
  /\ UNCHANGED <<i18nVars, serverVars, seoVars, backupVars, pipeVars>>
  /\ IF p.attempt <= retryCount
     THEN /\ inFlight' = (inFlight \ {p}) \cup {[p EXCEPT !.attempt = @ + 1]}
          /\ postsSent' = postsSent + 1
          /\ contactEvent' = [ContactEvent("retry") EXCEPT !.id = p.n]
          /\ UNCHANGED <<currentChallenge, captchaChallenge, nextChallengeId,
                         formData, isSubmitting>>
     ELSE /\ inFlight' = inFlight \ {p}
          /\ isSubmitting' = FALSE
          /\ \E a \in ChallengeAnswers : GenerateNewCaptcha(a)
          /\ formData' = [formData EXCEPT !.captcha = <<>>]
          /\ contactEvent' = [ContactEvent("submitFailed") EXCEPT
                                !.id = p.n, !.toast = "error"]
          /\ UNCHANGED postsSent
  /\ UNCHANGED <<honeypotField, isModalOpen, submissions, localBackup,
                 attemptedIds, apiAvailable>>

\* ContactComponent.openModal
OpenModal ==
  /\ ~isModalOpen
  /\ UNCHANGED <<i18nVars, serverVars, seoVars, backupVars, pipeVars>>
  /\ isModalOpen' = TRUE
  /\ \E a \in ChallengeAnswers : GenerateNewCaptcha(a)
  /\ formData' = [formData EXCEPT !.captcha = <<>>]
  /\ contactEvent' = ContactEvent("openModal")
  /\ UNCHANGED <<honeypotField, isSubmitting, inFlight, submissions,
                 postsSent, localBackup, attemptedIds, apiAvailable>>

\* ContactComponent.closeModal
CloseModal ==
  /\ isModalOpen
  /\ UNCHANGED <<i18nVars, serverVars, seoVars, backupVars, pipeVars>>
  /\ isModalOpen' = FALSE
  /\ contactEvent' = ContactEvent("closeModal")
  /\ UNCHANGED <<currentChallenge, captchaChallenge, nextChallengeId, formData,
                 honeypotField, isSubmitting, inFlight, submissions, postsSent,
                 localBackup, attemptedIds, apiAvailable>>

\* The visitor types name, e-mail and message (ngModel writes formData).
TypeForm(f) ==
  /\ UNCHANGED <<i18nVars, serverVars, seoVars, backupVars, pipeVars>>
  /\ formData' = [formData EXCEPT !.name = f.name, !.email = f.email,
                                  !.message = f.message]
  /\ contactEvent' = ContactEvent("typeForm")
  /\ UNCHANGED <<currentChallenge, captchaChallenge, nextChallengeId,
                 honeypotField, isModalOpen, isSubmitting, inFlight,
                 submissions, postsSent, localBackup, attemptedIds,
                 apiAvailable>>

\* The visitor types a captcha answer.
TypeCaptcha(c) ==
  /\ UNCHANGED <<i18nVars, serverVars, seoVars, backupVars, pipeVars>>
  /\ formData' = [formData EXCEPT !.captcha = c]
  /\ contactEvent' = ContactEvent("typeCaptcha")
  /\ UNCHANGED <<currentChallenge, captchaChallenge, nextChallengeId,
                 honeypotField, isModalOpen, isSubmitting, inFlight,
                 submissions, postsSent, localBackup, attemptedIds,
                 apiAvailable>>

\* A script fills the hidden field.
FillHoneypot(h) ==
  /\ UNCHANGED <<i18nVars, serverVars, seoVars, backupVars, pipeVars>>
  /\ honeypotField' = h
  /\ contactEvent' = ContactEvent("fillHoneypot")
  /\ UNCHANGED <<currentChallenge, captchaChallenge, nextChallengeId, formData,
                 isModalOpen, isSubmitting, inFlight, submissions, postsSent,
                 localBackup, attemptedIds, apiAvailable>>

\* ContactComponent.refreshCaptcha
RefreshCaptcha ==
  /\ UNCHANGED <<i18nVars, serverVars, seoVars, backupVars, pipeVars>>
  /\ \E a \in ChallengeAnswers : GenerateNewCaptcha(a)
  /\ formData' = [formData EXCEPT !.captcha = <<>>]
  /\ contactEvent' = ContactEvent("refreshCaptcha")
  /\ UNCHANGED <<honeypotField, isModalOpen, isSubmitting, inFlight,
                 submissions, postsSent, localBackup, attemptedIds,
                 apiAvailable>>

\* A caller of the public method CaptchaService.validateAnswer, with the id
\* of a challenge that has been generated (ids are random strings, so an id
\* not handed out yet cannot be presented).
ValidateAnswer(userAnswer, challengeId) ==
  LET v == validateAnswer(currentChallenge, userAnswer, challengeId) IN
    /\ challengeId < nextChallengeId
    /\ UNCHANGED <<i18nVars, serverVars, seoVars, backupVars, pipeVars>>
    /\ currentChallenge' = v.challenge
    /\ attemptedIds' = attemptedIds \cup {challengeId}
    /\ contactEvent' = [ContactEvent("validateAnswer") EXCEPT
                          !.called = TRUE,
                          !.prior = challengeId \in attemptedIds,
                          !.valid = v.result,
                          !.id = challengeId]
    /\ UNCHANGED <<captchaChallenge, nextChallengeId, formData, honeypotField,
                   isModalOpen, isSubmitting, inFlight, submissions, postsSent,
                   localBackup, apiAvailable>>

\* The state after ContactComponent's constructor has run.
ContactInit ==
  /\ \E a \in ChallengeAnswers :
       /\ currentChallenge = [id |-> 1, answer |-> a]
       /\ captchaChallenge = [id |-> 1, answer |-> a]
  /\ nextChallengeId = 2
  /\ formData = EmptyForm
  /\ honeypotField = <<>>
  /\ isModalOpen = FALSE
  /\ isSubmitting = FALSE
  /\ inFlight = {}
  /\ submissions = 0
  /\ postsSent = 0
  /\ localBackup = <<>>
  /\ attemptedIds = {}
  /\ apiAvailable \in BOOLEAN
  /\ contactEvent = ContactEvent("none")

ContactNext ==
  \/ OnSubmit
  \/ \E p \in inFlight : SubmitSucceeds(p)
  \/ \E p \in inFlight : PostFails(p)
  \/ OpenModal
  \/ CloseModal
  \/ \E f \in ClientForms : TypeForm(f)
  \/ \E c \in CaptchaInputs : TypeCaptcha(c)
  \/ \E h \in HoneypotInputs : FillHoneypot(h)

\* The captcha service with every caller of its public methods.
CaptchaNext ==
  \/ RefreshCaptcha
  \/ \E c \in CaptchaInputs : TypeCaptcha(c)
  \/ \E f \in ClientForms : TypeForm(f)
  \/ OnSubmit
  \/ \E a \in CaptchaInputs, i \in 1..MaxChallenges : ValidateAnswer(a, i)

(***************************************************************************)
(* The backend.                                                            *)
(***************************************************************************)
MaxClock == 2
MaxMessages == 2
MaxCaptchas == 2
MaxHits == 12
MaxReads == 1

ADMIN_KEY == "webfirm_admin_2024"

\* max of the rate limiter
limiterMax == 10

IPs == {"10.0.0.1", "10.0.0.2"}

\* req.query.key of an admin request (NULL when the parameter is missing)
AdminKeys == {ADMIN_KEY, "guess", NULL}

NamePadded == <<" ", "B", "o", " ">>
NameShort == <<" ", "A", " ">>
EmailUpper == <<" ", "A", "@", "B">>
EmailNoAt == <<"a", "b">>
MessagePadded == <<" ", " ", "h", "i", " ", " ", " ", " ", " ", " ">>

\* Request bodies of POST /api/contact; captchaId 0 stands for a missing
\* captchaId field.
Body(name, email, message, captcha, captchaId) ==
  [name |-> name, email |-> email, message |-> message, captcha |-> captcha,
   captchaId |-> captchaId]

NoBody == Body(<<>>, <<>>, <<>>, <<>>, 0)

\* Bodies that pass validateContactData and carry no captcha.
ValidBodies ==
  {Body(NameAl, EmailPlain, MessageLong, <<>>, 0),
   Body(NamePadded, EmailUpper, MessageLong, <<>>, 0)}

\* Bodies that validateContactData rejects.
InvalidBodies ==
  {Body(NameShort, EmailPlain, MessageLong, <<>>, 0),
   Body(NameAl, EmailNoAt, MessageLong, <<>>, 0),
   Body(NameAl, EmailPlain, MessagePadded, <<>>, 0)}

\* Bodies with a captcha answer, with and without a captchaId.
CaptchaBodies ==
  {Body(NameAl, EmailPlain, MessageLong, c, i) :
     c \in {<<"7">>, <<"1", "2">>, <<"x">>}, i \in 0..MaxCaptchas}

\* One body that passes validation and one that does not.
LimiterBodies ==
  {Body(NameAl, EmailPlain, MessageLong, <<>>, 0),
   Body(NameShort, EmailPlain, MessageLong, <<>>, 0)}

Bodies == ValidBodies \cup InvalidBodies \cup CaptchaBodies

\* Answers generateCaptcha's random arithmetic yields in the model.
CaptchaAnswers == {7}

NoTime == 0 - 1

NoMessage ==
  [id |-> 0, name |-> <<>>, email |-> <<>>, message |-> <<>>,
   status |-> "none", readAt |-> NoTime]

ServerEvent(op) ==
  [op |-> op, status |-> 0, ip |-> NULL, hit |-> 0, id |-> 0,
   messages |-> <<>>, body |-> NoBody, loaded |-> FALSE,
   accepted |-> FALSE, captchaCalled |-> FALSE,
   captchaPrior |-> FALSE, captchaValid |-> FALSE, key |-> "n/a"]

\* validateContactData
validateContactData(data) ==
  /\ data.name # <<>> /\ Len(Trim(data.name)) >= 2
  /\ data.email # <<>> /\ Includes(data.email, "@")
  /\ data.message # <<>> /\ Len(Trim(data.message)) >= 10

CaptchaEntry(store, captchaId) == {e \in store : e.id = captchaId}

\* validateCaptcha: the returned value and the store afterwards.
validateCaptcha(store, captchaId, userAnswer) ==
  IF CaptchaEntry(store, captchaId) = {}
  THEN [result |-> FALSE, store |-> store]
  ELSE LET stored == CHOOSE e \in store : e.id = captchaId
           numericAnswer == parseInt(userAnswer)
       IN IF stored.expired
          THEN [result |-> FALSE, store |-> store \ {stored}]
          ELSE [result |-> ~numericAnswer.nan
                           /\ numericAnswer.value = stored.answer,
                store |-> store \ {stored}]

\* newMessage of POST /api/contact; the id is Date.now().toString(), which
\* is one-to-one on the clock values, so the clock value stands for it.
NewMessage(body, now) ==
  [id |-> now, name |-> Trim(body.name),
   email |-> ToLowerCase(Trim(body.email)), message |-> Trim(body.message),
   status |-> "new", readAt |-> NoTime]

LimiterAllows_OneMore(totalHits) == totalHits <= limiterMax + 1

\* express-rate-limit: a request passes while the count of the window,
\* this request included, does not exceed max.
LimiterAllows(totalHits) == totalHits <= limiterMax

\* A handler suspended at an await, with its local variables; seen is the
\* content the file had when the handler called loadMessages.
Handler(kind, pc, newMessage, id, messages) ==
  [kind |-> kind, pc |-> pc, newMessage |-> newMessage, id |-> id,
   messages |-> messages, seen |-> <<>>]

\* messages.findIndex(msg => msg.id === messageId); 0 when none matches.
FindIndex(messages, messageId) ==
  IF \E i \in 1..Len(messages) : messages[i].id = messageId
  THEN CHOOSE i \in 1..Len(messages) :
         /\ messages[i].id = messageId
         /\ \A j \in 1..(i - 1) : messages[j].id # messageId
  ELSE 0

\* Array.prototype.reverse
Reverse(s) == [i \in 1..Len(s) |-> s[Len(s) + 1 - i]]

\* POST /api/contact, from the limiter to the first await.  A captchaId in
\* the body is one that GET /api/captcha has handed out.
PostContact(ip, body) ==
  LET totalHits == hits[ip] + 1
      valid == validateContactData(body)
      checked == valid /\ body.captcha # <<>> /\ body.captchaId # 0
      v == validateCaptcha(captchaStore, body.captchaId, body.captcha)
      accepted == valid /\ (checked => v.result)
      event == [ServerEvent("contact") EXCEPT
                  !.ip = ip, !.hit = totalHits, !.body = body]
  IN /\ hits[ip] < MaxHits
     /\ body.captchaId < nextCaptchaId
     /\ UNCHANGED <<i18nVars, contactVars, seoVars, backupVars, pipeVars>>
     /\ hits' = [hits EXCEPT ![ip] = totalHits]
     /\ UNCHANGED <<messagesFile, nextCaptchaId, clock, acked, readAcked>>
     /\ IF ~LimiterAllows(totalHits)
        THEN /\ serverEvent' = [event EXCEPT !.status = 429]
             /\ UNCHANGED <<captchaStore, handlers, started, usedCaptchas>>
        ELSE /\ captchaStore' = IF checked THEN v.store ELSE captchaStore
             /\ usedCaptchas' = IF checked
                                THEN usedCaptchas \cup {body.captchaId}
                                ELSE usedCaptchas
             /\ IF accepted
                THEN /\ started < MaxMessages
                     /\ started' = started + 1
                     /\ handlers' = handlers (+)
                          SetToBag({Handler("contact", "load",
                                            NewMessage(body, clock), clock,
                                            <<>>)})
                ELSE UNCHANGED <<handlers, started>>
             /\ serverEvent' = [event EXCEPT
                  !.status = IF accepted THEN 0 ELSE 400,
                  !.accepted = accepted,
                  !.id = IF accepted THEN clock ELSE 0,
                  !.captchaCalled = checked,
                  !.captchaPrior = body.captchaId \in usedCaptchas,
                  !.captchaValid = checked /\ v.result]

\* A suspended handler resumes after loadMessages: ok is whether the file
\* could be read and parsed (loadMessages returns [] otherwise).
HandlerLoad(h, ok) ==
  LET messages == IF ok THEN messagesFile ELSE <<>>
      index == FindIndex(messages, h.id)
      rest == handlers (-) SetToBag({h})
  IN /\ BagIn(h, handlers)
     /\ h.pc = "load"
     /\ UNCHANGED <<i18nVars, contactVars, seoVars, backupVars, pipeVars>>
     /\ UNCHANGED <<messagesFile, captchaStore, nextCaptchaId, clock, hits,
                    started, acked, readAcked, usedCaptchas>>
     /\ IF h.kind = "contact"
        THEN /\ handlers' = rest (+) SetToBag({[h EXCEPT
                  !.pc = "save", !.messages = Append(messages, h.newMessage),
                  !.seen = messagesFile]})
             /\ serverEvent' = [ServerEvent("load") EXCEPT !.id = h.id]
        ELSE IF index = 0
        THEN /\ handlers' = rest
             /\ serverEvent' = [ServerEvent("markRead") EXCEPT
                                  !.id = h.id, !.status = 404]
        ELSE /\ handlers' = rest (+) SetToBag({[h EXCEPT
                  !.pc = "save",
                  !.seen = messagesFile,
                  !.messages = [messages EXCEPT
                                  ![index].status = "read",
                                  ![index].readAt = clock]]})
             /\ serverEvent' = [ServerEvent("load") EXCEPT !.id = h.id]

saveMessages_WritesAnyway(file, messages, ok) == messages

\* saveMessages: the content of the file after the call; ok is whether
\* fs.writeFile succeeded.
saveMessages(file, messages, ok) == IF ok THEN messages ELSE file

\* A suspended handler resumes after saveMessages (ok is whether the file
\* was written) and answers.
HandlerSave(h, ok) ==
  /\ BagIn(h, handlers)
  /\ h.pc = "save"
  /\ UNCHANGED <<i18nVars, contactVars, seoVars, backupVars, pipeVars>>
  /\ handlers' = handlers (-) SetToBag({h})
  /\ messagesFile' = saveMessages(messagesFile, h.messages, ok)
  /\ acked' = IF ok /\ h.kind = "contact" THEN acked \cup {h.newMessage}
              ELSE acked
  /\ readAcked' = IF ok /\ h.kind = "read" THEN readAcked \cup {h.id}
                  ELSE readAcked
  /\ serverEvent' = [ServerEvent(IF h.kind = "contact" THEN "contactDone"
                                 ELSE "markRead") EXCEPT
                       !.id = h.id, !.status = IF ok THEN 200 ELSE 500]
  /\ UNCHANGED <<captchaStore, nextCaptchaId, clock, hits, started,
                 usedCaptchas>>

AdminAuthorized_AnyKey(key) == key # NULL

\* The admin routes' test of req.query.key.
AdminAuthorized(key) == key = ADMIN_KEY

\* GET /api/admin/messages
AdminMessages(key, ok) ==
  /\ UNCHANGED <<i18nVars, contactVars, seoVars, backupVars, pipeVars>>
  /\ serverEvent' =
       IF ~AdminAuthorized(key)
       THEN [ServerEvent("adminMessages") EXCEPT !.status = 401, !.key = key]
       ELSE [ServerEvent("adminMessages") EXCEPT
               !.status = 200,
               !.key = key,
               !.loaded = ok,
               !.messages = Reverse(IF ok THEN messagesFile ELSE <<>>)]
  /\ UNCHANGED <<messagesFile, captchaStore, nextCaptchaId, clock, hits,
                 handlers, started, acked, readAcked, usedCaptchas>>

\* POST /api/admin/messages/:id/read, up to its first await.
AdminMarkRead(key, messageId) ==
  /\ UNCHANGED <<i18nVars, contactVars, seoVars, backupVars, pipeVars>>
  /\ IF ~AdminAuthorized(key)
     THEN /\ serverEvent' = [ServerEvent("markRead") EXCEPT
                               !.id = messageId, !.status = 401,
                               !.key = key]
          /\ UNCHANGED handlers
     ELSE /\ BagCardinality(handlers) < MaxReads
          /\ handlers' = handlers (+)
               SetToBag({Handler("read", "load", NoMessage, messageId, <<>>)})
          /\ serverEvent' = [ServerEvent("markReadBegin") EXCEPT
                               !.id = messageId, !.key = key]
  /\ UNCHANGED <<messagesFile, captchaStore, nextCaptchaId, clock, hits,
                 started, acked, readAcked, usedCaptchas>>

\* GET /api/captcha
GetCaptcha(answer) ==
  /\ nextCaptchaId <= MaxCaptchas
  /\ UNCHANGED <<i18nVars, contactVars, seoVars, backupVars, pipeVars>>
  /\ captchaStore' = captchaStore \cup
       {[id |-> nextCaptchaId, answer |-> answer, expired |-> FALSE]}
  /\ nextCaptchaId' = nextCaptchaId + 1
  /\ serverEvent' = [ServerEvent("captcha") EXCEPT
                       !.status = 200, !.id = nextCaptchaId]
  /\ UNCHANGED <<messagesFile, clock, hits, handlers, started, acked,
                 readAcked, usedCaptchas>>

\* Ten minutes have passed since the captcha was generated.
CaptchaExpires(e) ==
  /\ e \in captchaStore
  /\ ~e.expired
  /\ UNCHANGED <<i18nVars, contactVars, seoVars, backupVars, pipeVars>>
  /\ captchaStore' = (captchaStore \ {e}) \cup {[e EXCEPT !.expired = TRUE]}
  /\ serverEvent' = [ServerEvent("captchaExpires") EXCEPT !.id = e.id]
  /\ UNCHANGED <<messagesFile, nextCaptchaId, clock, hits, handlers, started,
                 acked, readAcked, usedCaptchas>>

\* The setTimeout callback of generateCaptcha.
CaptchaTimeout(e) ==
  /\ e \in captchaStore
  /\ e.expired
  /\ UNCHANGED <<i18nVars, contactVars, seoVars, backupVars, pipeVars>>
  /\ captchaStore' = captchaStore \ {e}
  /\ serverEvent' = [ServerEvent("captchaTimeout") EXCEPT !.id = e.id]
  /\ UNCHANGED <<messagesFile, nextCaptchaId, clock, hits, handlers, started,
                 acked, readAcked, usedCaptchas>>

\* A millisecond passes.
Tick ==
  /\ clock < MaxClock
  /\ UNCHANGED <<i18nVars, contactVars, seoVars, backupVars, pipeVars>>
  /\ clock' = clock + 1
  /\ serverEvent' = ServerEvent("tick")
  /\ UNCHANGED <<messagesFile, captchaStore, nextCaptchaId, hits, handlers,
                 started, acked, readAcked, usedCaptchas>>

\* The limiter's window of an IP ends: its count starts again.
WindowReset(ip) ==
  /\ hits[ip] > 0
  /\ UNCHANGED <<i18nVars, contactVars, seoVars, backupVars, pipeVars>>
  /\ hits' = [hits EXCEPT ![ip] = 0]
  /\ serverEvent' = [ServerEvent("windowReset") EXCEPT !.ip = ip]
  /\ UNCHANGED <<messagesFile, captchaStore, nextCaptchaId, clock, handlers,
                 started, acked, readAcked, usedCaptchas>>

ServerInit ==
  /\ messagesFile = <<>>
  /\ captchaStore = {}
  /\ nextCaptchaId = 1
  /\ clock = 1
  /\ hits = [ip \in IPs |-> 0]
  /\ handlers = EmptyBag
  /\ started = 0
  /\ acked = {}
  /\ readAcked = {}
  /\ usedCaptchas = {}
  /\ serverEvent = ServerEvent("none")

\* The message store: accepted submissions and the admin endpoints.
ServerNext ==
  \/ \E b \in ValidBodies : PostContact("10.0.0.1", b)
  \/ \E h \in BagToSet(handlers), ok \in BOOLEAN : HandlerLoad(h, ok)
  \/ \E h \in BagToSet(handlers), ok \in BOOLEAN : HandlerSave(h, ok)
  \/ \E k \in AdminKeys, ok \in BOOLEAN : AdminMessages(k, ok)
  \/ \E k \in AdminKeys, i \in 1..MaxClock : AdminMarkRead(k, i)
  \/ Tick

\* The contact endpoint with the captcha endpoint and the captcha store.
CaptchaStoreNext ==
  \/ \E b \in CaptchaBodies : PostContact("10.0.0.1", b)
  \/ \E a \in CaptchaAnswers : GetCaptcha(a)
  \/ \E e \in captchaStore : CaptchaExpires(e)
  \/ \E e \in captchaStore : CaptchaTimeout(e)

\* The contact endpoint behind the rate limiter, several addresses.
LimiterNext ==
  \/ \E ip \in IPs, b \in LimiterBodies : PostContact(ip, b)
  \/ \E h \in BagToSet(handlers), ok \in BOOLEAN : HandlerLoad(h, ok)
  \/ \E h \in BagToSet(handlers), ok \in BOOLEAN : HandlerSave(h, ok)
  \/ \E ip \in IPs : WindowReset(ip)

(***************************************************************************)
(* The SEO metadata applier: the SEOService that AppComponent calls        *)
(* (updateSEOForLanguage), and the subscriptions that drive it.            *)
(***************************************************************************)
MaxNavigations == 2
MaxSeoFetches == 2

baseUrl == "https://webfirmsolutions.com"

\* SEOService.supportedLanguages.
seoSupportedLanguages == <<"en", "ro", "fr", "de", "uk">>

\* URLs the router reports, as token sequences.
Urls == {<<"/">>, <<"/admin", "?", "tab=new">>}

\* Languages the translation service emits on currentLanguage$.
EmittedLanguages == {"en", "fr"}

\* localStorage.getItem('selectedLanguage'): no code writes this key.
selectedLanguageItem == NULL

Link(rel, hreflang, href) == [rel |-> rel, hreflang |-> hreflang, href |-> href]

\* index.html is not among the sources: the head starts either without
\* canonical and alternate links or with one static link of each kind.
StaticHeads ==
  {<<Link("stylesheet", NULL, <<"styles.css">>)>>,
   <<Link("canonical", NULL, <<baseUrl, "/">>),
     Link("alternate", "en", <<baseUrl, "/">>),
     Link("stylesheet", NULL, <<"styles.css">>)>>}

SeoRequest(lang, path) == [lang |-> lang, path |-> path]

SeoEvent(op) == [op |-> op, lang |-> NULL, path |-> <<>>]

IsCanonical(l) == l.rel = "canonical"

IsHreflang(l) == l.rel = "alternate" /\ l.hreflang # NULL

\* document.querySelector(selector).remove(): the first match goes.
RECURSIVE RemoveFirstCanonical(_)
RemoveFirstCanonical(h) ==
  IF h = <<>> THEN <<>>
  ELSE IF IsCanonical(Head(h)) THEN Tail(h)
  ELSE <<Head(h)>> \o RemoveFirstCanonical(Tail(h))

StartsWithHttp(url) == url # <<>> /\ Head(url) = baseUrl

updateCanonicalUrl_KeepsOld(h, url) ==
  IF url = <<>> THEN h
  ELSE h \o <<Link("canonical", NULL, <<baseUrl>> \o url)>>

\* SEOService.updateCanonicalUrl on the head h.
updateCanonicalUrl(h, url) ==
  IF url = <<>> THEN h
  ELSE LET currentLang == IF selectedLanguageItem # NULL
                          THEN selectedLanguageItem ELSE "en"
           absolute == IF StartsWithHttp(url) THEN url ELSE <<baseUrl>> \o url
           canonicalUrl ==
             IF currentLang # "en"
             THEN absolute \o <<IF Includes(absolute, "?") THEN "&" ELSE "?",
                                "lang=", currentLang>>
             ELSE absolute
       IN RemoveFirstCanonical(h) \o <<Link("canonical", NULL, canonicalUrl)>>

HreflangLinks(currentPath) ==
  [i \in 1..Len(seoSupportedLanguages) |->
     Link("alternate", seoSupportedLanguages[i],
          <<baseUrl>> \o currentPath \o <<"?", "lang=", seoSupportedLanguages[i]>>)]

\* SEOService.updateHreflangTags on the head h.
updateHreflangTags(h, currentPath, currentLang) ==
  LET kept == SelectSeq(h, LAMBDA l : ~IsHreflang(l))
      defaultLink == Link("alternate", "x-default", <<baseUrl>> \o currentPath)
  IN updateCanonicalUrl(
       kept \o HreflangLinks(currentPath) \o <<defaultLink>>,
       currentPath \o <<IF Includes(currentPath, "?") THEN "&" ELSE "?",
                        "lang=", currentLang>>)

\* The catchError of loadLanguageSEO: the fetches it starts.
loadLanguageSEOError(lang, path) == EmptyBag

MaxSchemaWrites == 3

\* The logical groups of structured data.
SchemaGroups == {"organization", "breadcrumb", "webpage", "faq"}

\* The breadcrumb trails handed to addBreadcrumbStructuredData.
Breadcrumbs == {<<"Home">>, <<"Home", "Admin">>}

\* A <script type="application/ld+json">: its data-schema attribute (NULL
\* when it has none), its text, and the group whose data the text is.
Script(schema, group, data) == [schema |-> schema, group |-> group, data |-> data]

\* querySelector(...).remove(): the list without the first of the scripts
\* at the positions that match the selector.
RemoveFirst(scripts, matching) ==
  IF matching = {} THEN scripts
  ELSE LET k == CHOOSE i \in matching : \A j \in matching : i <= j
       IN SubSeq(scripts, 1, k - 1) \o SubSeq(scripts, k + 1, Len(scripts))

\* SEOService.updateStructuredData: querySelector finds the first JSON-LD
\* script of the document, whatever its data-schema; the new script gets no
\* data-schema attribute.
updateStructuredData(scripts, group, data) ==
  Append(RemoveFirst(scripts, 1..Len(scripts)), Script(NULL, group, data))

\* The replacement used by updatePageSchema and addFAQSchema: the first
\* script with that data-schema is removed, the new one carries it.
ReplaceSchema(scripts, schema, data) ==
  Append(RemoveFirst(scripts,
                     {i \in 1..Len(scripts) : scripts[i].schema = schema}),
         Script(schema, schema, data))

\* SEOService.updateMultiLanguageStructuredData
updateMultiLanguageStructuredData(scripts, currentLang) ==
  updateStructuredData(scripts, "organization", <<currentLang>>)

\* SEOService.updatePageSchema
updatePageSchema(scripts, url) == ReplaceSchema(scripts, "webpage", url)

\* WhyChooseUs.ngOnInit: addFAQSchema.
AddFAQSchema ==
  /\ UNCHANGED <<i18nVars, contactVars, serverVars, backupVars, pipeVars>>
  /\ schemaWrites < MaxSchemaWrites
  /\ schemaWrites' = schemaWrites + 1
  /\ jsonLd' = ReplaceSchema(jsonLd, "faq", <<"faq">>)
  /\ lastWritten' = [lastWritten EXCEPT !["faq"] = <<"faq">>]
  /\ seoEvent' = SeoEvent("addFAQSchema")
  /\ UNCHANGED <<head, seoRequests, seoMeta, routerUrl, navigations>>

\* SEOService.addBreadcrumbStructuredData
AddBreadcrumbStructuredData(breadcrumbs) ==
  /\ UNCHANGED <<i18nVars, contactVars, serverVars, backupVars, pipeVars>>
  /\ schemaWrites < MaxSchemaWrites
  /\ schemaWrites' = schemaWrites + 1
  /\ jsonLd' = updateStructuredData(jsonLd, "breadcrumb", breadcrumbs)
  /\ lastWritten' = [lastWritten EXCEPT !["breadcrumb"] = breadcrumbs]
  /\ seoEvent' = SeoEvent("addBreadcrumb")
  /\ UNCHANGED <<head, seoRequests, seoMeta, routerUrl, navigations>>

\* SEOService.updateSEO called with data that holds a url only: title,
\* description and keywords are absent and their tags stay as they are.
UpdateSEO(url) ==
  /\ UNCHANGED <<i18nVars, contactVars, serverVars, backupVars, pipeVars>>
  /\ schemaWrites < MaxSchemaWrites
  /\ schemaWrites' = schemaWrites + 1
  /\ head' = updateCanonicalUrl(head, url)
  /\ jsonLd' = updatePageSchema(jsonLd, url)
  /\ lastWritten' = [lastWritten EXCEPT !["webpage"] = url]
  /\ seoEvent' = [SeoEvent("updateSEO") EXCEPT !.path = url]
  /\ UNCHANGED <<seoRequests, seoMeta, routerUrl, navigations>>

\* The callback of AppComponent.setupLanguageBasedSEO, run for every value
\* of currentLanguage$: updateSEOForLanguage(lang, router.url) up to its
\* fetch.
LanguageChanged(lang) ==
  /\ UNCHANGED <<i18nVars, contactVars, serverVars, backupVars, pipeVars>>
  /\ BagCardinality(seoRequests) < MaxSeoFetches
  /\ seoRequests' = seoRequests (+) SetToBag({SeoRequest(lang, routerUrl)})
  /\ seoEvent' = [SeoEvent("languageChanged") EXCEPT !.lang = lang,
                                                      !.path = routerUrl]
  /\ UNCHANGED <<head, seoMeta, routerUrl, navigations, jsonLd, lastWritten,
                 schemaWrites>>

\* A NavigationEnd event: the subscriber of SEOService.initializeRouteTracking
\* and the subscriber of AppComponent.ngOnInit.
RouteChanged(url) ==
  /\ UNCHANGED <<i18nVars, contactVars, serverVars, backupVars, pipeVars>>
  /\ navigations < MaxNavigations
  /\ BagCardinality(seoRequests) < MaxSeoFetches
  /\ navigations' = navigations + 1
  /\ routerUrl' = url
  /\ head' = updateCanonicalUrl(head, url)
  /\ LET currentLang == getCurrentLanguageOf(localStorageLanguage,
                                             sessionAutoDetected)
     IN /\ seoRequests' = seoRequests (+) SetToBag({SeoRequest(currentLang, url)})
        /\ seoEvent' = [SeoEvent("routeChanged") EXCEPT !.lang = currentLang,
                                                         !.path = url]
  /\ UNCHANGED <<seoMeta, jsonLd, lastWritten, schemaWrites>>

\* The subscriber of updateSEOForLanguage receives the descriptor of r.
SeoFetchSuccess(r) ==
  /\ UNCHANGED <<i18nVars, contactVars, serverVars, backupVars, pipeVars>>
  /\ BagIn(r, seoRequests)
  /\ seoRequests' = seoRequests (-) SetToBag({r})
  /\ seoMeta' = r.lang
  /\ head' = updateHreflangTags(head, r.path, r.lang)
  /\ jsonLd' = updateMultiLanguageStructuredData(jsonLd, r.lang)
  /\ lastWritten' = [lastWritten EXCEPT !["organization"] = <<r.lang>>]
  /\ seoEvent' = [SeoEvent("seoApplied") EXCEPT !.lang = r.lang, !.path = r.path]
  /\ UNCHANGED <<routerUrl, navigations, schemaWrites>>

\* The fetch of r fails: catchError answers null and the subscriber of
\* updateSEOForLanguage skips the update.
SeoFetchError(r) ==
  /\ UNCHANGED <<i18nVars, contactVars, serverVars, backupVars, pipeVars>>
  /\ BagIn(r, seoRequests)
  /\ seoRequests' = (seoRequests (-) SetToBag({r}))
                    (+) loadLanguageSEOError(r.lang, r.path)
  /\ seoEvent' = [SeoEvent("seoFetchError") EXCEPT !.lang = r.lang,
                                                    !.path = r.path]
  /\ UNCHANGED <<head, seoMeta, routerUrl, navigations, jsonLd, lastWritten,
                 schemaWrites>>

SeoInit ==
  /\ head \in StaticHeads
  /\ seoRequests = EmptyBag
  /\ seoMeta = NULL
  /\ jsonLd = <<>>
  /\ lastWritten = [g \in SchemaGroups |-> NULL]
  /\ schemaWrites = 0
  /\ routerUrl = <<"/">>
  /\ navigations = 0
  /\ seoEvent = SeoEvent("none")

SeoNext ==
  \/ \E l \in EmittedLanguages : LanguageChanged(l)
  \/ \E u \in Urls : RouteChanged(u)
  \/ \E r \in BagToSet(seoRequests) : SeoFetchSuccess(r)
  \/ \E r \in BagToSet(seoRequests) : SeoFetchError(r)

\* The structured data of the page: the components and the SEO service
\* writing their groups.
SchemaNext ==
  \/ AddFAQSchema
  \/ \E b \in Breadcrumbs : AddBreadcrumbStructuredData(b)
  \/ \E u \in Urls : UpdateSEO(u)
  \/ \E l \in EmittedLanguages : LanguageChanged(l)
  \/ \E r \in BagToSet(seoRequests) : SeoFetchSuccess(r)

(***************************************************************************)
(* MessageService in the backend-not-available mode: submitMessage,        *)
(* getMessages and markAsRead work on localStorage alone.                  *)
(***************************************************************************)
MaxLocalSaves == 3

\* expectedKey of the local branches of getMessages and markAsRead
expectedKey == "our_secure_admin_key_here_2024"

LocalAdminKeys == {expectedKey, "guess"}

BackupEvent(op) ==
  [op |-> op, ok |-> FALSE, id |-> 0, messages |-> <<>>, total |-> 0]

\* The map of markAsRead: the message with that id becomes read.
MarkRead(messages, messageId) ==
  [i \in 1..Len(messages) |->
     IF messages[i].id = messageId
     THEN [messages[i] EXCEPT !.status = "read"]
     ELSE messages[i]]

\* The MessageService constructor (a page load): loadLocalMessages.
LoadLocalMessages ==
  /\ ~apiAvailable
  /\ UNCHANGED <<i18nVars, contactVars, serverVars, seoVars, pipeVars>>
  /\ messagesSubject' = IF Len(localBackup) > 0 THEN localBackup ELSE <<>>
  /\ backupEvent' = BackupEvent("construct")
  /\ UNCHANGED <<savedLog, markedIds>>

\* submitMessage without a backend: the message is saved locally at the
\* call; the timer that delivers the simulated response touches nothing
\* of the service.
LocalSubmit(form) ==
  /\ ~apiAvailable
  /\ Len(savedLog) < MaxLocalSaves
  /\ UNCHANGED <<i18nVars, serverVars, seoVars, pipeVars>>
  /\ submissions' = submissions + 1
  /\ localBackup' = saveMessageLocally(localBackup, form, submissions + 1)
  /\ savedLog' = saveMessageLocally(savedLog, form, submissions + 1)
  /\ backupEvent' = [BackupEvent("submit") EXCEPT !.ok = TRUE,
                                                  !.id = submissions + 1]
  /\ UNCHANGED <<currentChallenge, captchaChallenge, nextChallengeId,
                 formData, honeypotField, isModalOpen, isSubmitting, inFlight,
                 postsSent, attemptedIds, apiAvailable, contactEvent,
                 messagesSubject, markedIds>>

\* The timer callback of getMessages without a backend. The array handed
\* to messagesSubject.next is the one that reverse() then turns around in
\* place, so the subject's value is the reversed list as well.
GetMessages(adminKey) ==
  /\ ~apiAvailable
  /\ UNCHANGED <<i18nVars, contactVars, serverVars, seoVars, pipeVars>>
  /\ IF adminKey # expectedKey
     THEN /\ backupEvent' = BackupEvent("getMessages")
          /\ UNCHANGED messagesSubject
     ELSE /\ messagesSubject' = Reverse(localBackup)
          /\ backupEvent' = [BackupEvent("getMessages") EXCEPT
                               !.ok = TRUE,
                               !.messages = Reverse(localBackup),
                               !.total = Len(localBackup)]
  /\ UNCHANGED <<savedLog, markedIds>>

\* The timer callback of markAsRead without a backend; stored says whether
\* localStorage.setItem went through.
MarkAsRead(messageId, adminKey, stored) ==
  /\ ~apiAvailable
  /\ UNCHANGED <<i18nVars, serverVars, seoVars, pipeVars>>
  /\ IF adminKey = expectedKey /\ stored
     THEN /\ localBackup' = MarkRead(messagesSubject, messageId)
          /\ messagesSubject' = MarkRead(messagesSubject, messageId)
          /\ markedIds' = markedIds \cup {messageId}
          /\ backupEvent' = [BackupEvent("markAsRead") EXCEPT
                               !.ok = TRUE, !.id = messageId]
     ELSE /\ backupEvent' = [BackupEvent("markAsRead") EXCEPT !.id = messageId]
          /\ UNCHANGED <<localBackup, messagesSubject, markedIds>>
  /\ UNCHANGED <<currentChallenge, captchaChallenge, nextChallengeId,
                 formData, honeypotField, isModalOpen, isSubmitting, inFlight,
                 submissions, postsSent, attemptedIds, apiAvailable,
                 contactEvent, savedLog>>

BackupInit ==
  /\ messagesSubject = <<>>
  /\ savedLog = <<>>
  /\ markedIds = {}
  /\ backupEvent = BackupEvent("none")

BackupNext ==
  \/ LoadLocalMessages
  \/ \E f \in ClientForms, c \in {<<"7">>} :
       LocalSubmit([name |-> f.name, email |-> f.email,
                    message |-> f.message, captcha |-> c])
  \/ \E k \in LocalAdminKeys : GetMessages(k)
  \/ \E id \in 1..MaxLocalSaves, k \in LocalAdminKeys, stored \in BOOLEAN :
       MarkAsRead(id, k, stored)

(***************************************************************************)
(* The contact form and the backend together: the POSTs of                 *)
(* MessageService.submitMessage as requests to POST /api/contact.          *)
(***************************************************************************)
\* The captchaId of a POST body that carries the id of a client-side
\* challenge. CaptchaService.generateId joins two random base-36 strings,
\* the server's generateCaptcha uses one: a client id is never a key of
\* the server's captchaStore. Client ids are the negative numbers here.
ClientCaptchaId(id) == 0 - id

\* The JSON body of the POST: { ...formData, captchaId }.
PayloadBody(p) ==
  Body(p.payload.name, p.payload.email, p.payload.message, p.payload.captcha,
       ClientCaptchaId(p.captchaId))

\* A POST sent by the client reaches the backend.
ClientPostArrives(p) ==
  /\ p \in inFlight
  /\ p.kind = "post"
  /\ hits["10.0.0.1"] < postsSent
  /\ PostContact("10.0.0.1", PayloadBody(p))

EndToEndNext ==
  \/ \E f \in ClientForms : TypeForm(f)
  \/ \E c \in CaptchaInputs : TypeCaptcha(c)
  \/ OnSubmit
  \/ \E p \in inFlight : ClientPostArrives(p)
  \/ \E p \in inFlight : PostFails(p)
  \/ \E a \in CaptchaAnswers : GetCaptcha(a)

\* The admin routes at work while contact submissions are being stored.
AdminNext ==
  \/ \E b \in ValidBodies : PostContact("10.0.0.1", b)
  \/ \E h \in BagToSet(handlers), ok \in BOOLEAN : HandlerLoad(h, ok)
  \/ \E h \in BagToSet(handlers), ok \in BOOLEAN : HandlerSave(h, ok)
  \/ \E k \in AdminKeys, ok \in BOOLEAN : AdminMessages(k, ok)
  \/ \E k \in AdminKeys, i \in 1..MaxClock : AdminMarkRead(k, i)

vars == <<i18nVars, contactVars, serverVars, seoVars, backupVars, pipeVars>>

Init == I18nInit /\ ContactInit /\ ServerInit /\ SeoInit /\ BackupInit

\* One initial state of the translation subsystem, for the specifications
\* in which it takes no step.
I18nIdle ==
  /\ I18nInit
  /\ timezone = "Europe/Bucharest"
  /\ navigatorLanguage = <<"fr", "-", "FR">>

\* One initial state of the contact form, for the specifications in which
\* it takes no step.
ContactIdle ==
  /\ ContactInit
  /\ apiAvailable

\* One initial state of the SEO applier, for the specifications in which it
\* takes no step.
SeoIdle ==
  /\ SeoInit
  /\ head = <<Link("stylesheet", NULL, <<"styles.css">>)>>

\* The page with its contact form and the backend at rest.
I18nInitial == I18nInit /\ ContactIdle /\ ServerInit /\ SeoIdle /\ BackupInit

\* The contact form with the translation subsystem and the backend at rest.
ContactInitial == I18nIdle /\ ContactInit /\ ServerInit /\ SeoIdle /\ BackupInit

\* The contact form of a deployment without a backend.
ContactLocal ==
  /\ ContactInit
  /\ ~apiAvailable

\* The local message store with everything else at rest.
BackupInitial == I18nIdle /\ ContactLocal /\ ServerInit /\ SeoIdle /\ BackupInit

\* The backend with the client at rest.
ServerInitial == I18nIdle /\ ContactIdle /\ ServerInit /\ SeoIdle /\ BackupInit

\* The SEO applier with the contact form and the backend at rest.
SeoInitial == I18nInit /\ ContactIdle /\ ServerInit /\ SeoInit /\ BackupInit

Next ==
  \/ I18nNext
  \/ TranslateNext
  \/ ContactNext
  \/ CaptchaNext
  \/ ServerNext
  \/ CaptchaStoreNext
  \/ LimiterNext
  \/ SeoNext
  \/ AdminNext
  \/ EndToEndNext
  \/ BackupNext
  \/ SchemaNext
  \/ PipeNext

Spec == Init /\ [][Next]_vars

SpecI18n == I18nInitial /\ [][I18nNext]_vars

SpecTranslate == I18nInitial /\ [][TranslateNext]_vars

SpecContact == ContactInitial /\ [][ContactNext]_vars

SpecCaptcha == ContactInitial /\ [][CaptchaNext]_vars

SpecServer == ServerInitial /\ [][ServerNext]_vars

SpecCaptchaStore == ServerInitial /\ [][CaptchaStoreNext]_vars

SpecLimiter == ServerInitial /\ [][LimiterNext]_vars
SpecSeo == SeoInitial /\ [][SeoNext]_vars
SpecAdmin == ServerInitial /\ [][AdminNext]_vars
SpecPipe == I18nInitial /\ [][PipeNext]_vars
SpecSchema == SeoInitial /\ [][SchemaNext]_vars
SpecBackup == BackupInitial /\ [][BackupNext]_vars
SpecEndToEnd == ContactInitial /\ [][EndToEndNext]_vars

(***************************************************************************)
(* Properties of the translation subsystem.                                *)
(***************************************************************************)
\* C1: for every key path and in every state of the translation store,
\* translate(keyPath) returns a non-empty string (it does not raise and does
\* not return a value that is not a string).
C1_TranslateReturnsNonEmptyString ==
  (i18nEvent.op = "translate" /\ i18nEvent.params = NoParams) =>
     /\ IsNonEmptyString(i18nEvent.result)
     /\ IsNonEmptyString(i18nEvent.resultBranched)

\* C2: when the fetch of a non-default language fails, the default language
\* is fetched in its place, and when that fetch succeeds the dictionary is
\* the default language's and the current language is the default.
C2_FallbackToDefault ==
  /\ (i18nEvent.op = "loadError" /\ i18nEvent.lang # defaultLanguage) =>
        /\ BagIn(Request(defaultLanguage, i18nEvent.root), requests)
        /\ isLoadingSignal
  /\ (i18nEvent.op = "loadSuccess" /\ i18nEvent.root # defaultLanguage
        /\ i18nEvent.lang = defaultLanguage) =>
        /\ translationsSignal = Dict(defaultLanguage)
        /\ currentLanguageSignal = defaultLanguage

C2_Witness ==
  /\ i18nEvent.op = "loadSuccess"
  /\ i18nEvent.root = "ro"
  /\ i18nEvent.lang = defaultLanguage
  /\ translationsSignal = Dict("en")

\* C7: when detection ends with a country code c, the language it chooses
\* (records for the session and asks setLanguage for) is countryToLanguage[c]
\* for a code in the table (RO gives ro, US gives en) and the default
\* language for any other code.
C7_CountryToLanguage ==
  (i18nEvent.op = "detected" /\ i18nEvent.country # NULL) =>
     /\ sessionAutoDetected = i18nEvent.lang
     /\ (i18nEvent.country = "RO" => i18nEvent.lang = "ro")
     /\ (i18nEvent.country = "US" => i18nEvent.lang = "en")
     /\ (i18nEvent.country \in DOMAIN countryToLanguage =>
           i18nEvent.lang = countryToLanguage[i18nEvent.country])
     /\ (i18nEvent.country \notin DOMAIN countryToLanguage =>
           i18nEvent.lang = "en")
     /\ (i18nEvent.lang # currentLanguageSignal =>
           BagIn(Request(i18nEvent.lang, i18nEvent.lang), requests))

C7_Witness ==
  /\ i18nEvent.op = "detected"
  /\ i18nEvent.country = "RO"
  /\ sessionAutoDetected = "ro"
  /\ BagIn(Request("ro", "ro"), requests)

C9_DetectionAtMostOncePerSession ==
  sessionDetectDone => \A i \in 1..Len(GeoApis) : pcDetect # pcAwait[i]

\* C10: the persistent preference key holds a value only after the user has
\* picked a language in the menu.
C10_PersistentKeyOnlyAfterSelection ==
  localStorageLanguage # NULL => everUserSelected

\* C11: on a page load without a stored preference the geolocation services
\* are asked in their listed order, each at most once, and the first answer
\* with a country code is used; when all fail the country is the time
\* zone's, and when the time zone is not in the table the language that
\* startup goes on with is the browser's when it is supported and the
\* default language otherwise.
C11_DetectionOrderAndFallbacks ==
  /\ \A i \in 1..Len(GeoApis) : pcDetect = pcAwait[i] => geoCalls = i
  /\ geoCalls <= Len(GeoApis)
  /\ (i18nEvent.op = "detected" /\ i18nEvent.api > 0) =>
        /\ geoCalls = i18nEvent.api
        /\ i18nEvent.country # NULL
        /\ sessionAutoDetected = LanguageForCountry(i18nEvent.country)
  /\ (i18nEvent.op = "detected" /\ i18nEvent.api = 0) =>
        /\ geoCalls = Len(GeoApis)
        /\ i18nEvent.country = CountryOfTimezone(timezone)
        /\ (i18nEvent.country = NULL /\ bootStored = NULL) =>
              i18nEvent.resolved = IF getBrowserLanguage # NULL
                                   THEN getBrowserLanguage
                                   ELSE defaultLanguage

\* C12: when the fetch of a requested non-default language has failed and
\* the retry with the default language has failed too, the in-memory
\* dictionary is empty (so that every lookup is answered from the static
\* fallback map), whatever dictionary was loaded before the request.
C12_DictionaryEmptyAfterDoubleFailure ==
  (/\ i18nEvent.op = "loadError"
   /\ i18nEvent.lang = defaultLanguage
   /\ i18nEvent.root # defaultLanguage)
  => translationsSignal = EmptyDict

\* C13: every route change and every language change starts a fetch of the
\* SEO file of the current language, and when the fetch of a language's SEO
\* file fails the default language's SEO file is fetched in its place.
C13_SeoFetchedWithDefaultFallback ==
  /\ seoEvent.op \in {"languageChanged", "routeChanged"} =>
        BagIn(SeoRequest(seoEvent.lang, seoEvent.path), seoRequests)
  /\ (seoEvent.op = "seoFetchError" /\ seoEvent.lang # defaultLanguage) =>
        BagIn(SeoRequest(defaultLanguage, seoEvent.path), seoRequests)

CanonicalCount == Len(SelectSeq(head, IsCanonical))

HreflangOf(h) == {h[i] : i \in {j \in 1..Len(h) : IsHreflang(h[j])}}

\* C20: after every SEO update the head holds exactly one canonical link,
\* and after updateHreflangTags its hreflang alternates are one link per
\* supported language and one x-default link, all for the path of that
\* call, each present once.
C20_OneCanonicalFreshHreflang ==
  /\ seoEvent.op \in {"routeChanged", "seoApplied"} => CanonicalCount = 1
  /\ seoEvent.op = "seoApplied" =>
        /\ HreflangOf(head) =
             {HreflangLinks(seoEvent.path)[i] :
                i \in 1..Len(seoSupportedLanguages)}
             \cup {Link("alternate", "x-default", <<baseUrl>> \o seoEvent.path)}
        /\ Len(SelectSeq(head, IsHreflang)) = Len(seoSupportedLanguages) + 1

\* A second descriptor is applied for another path to a head that came
\* with static canonical and alternate links.
C20_Witness ==
  /\ seoEvent.op = "seoApplied"
  /\ seoMeta = "fr"
  /\ seoEvent.path # <<"/">>
  /\ navigations = MaxNavigations
  /\ Len(head) > Len(seoSupportedLanguages) + 2

(***************************************************************************)
(* Properties of the contact pipeline and of the backend.                  *)
(***************************************************************************)
\* C3: once a validation attempt has been made for a captcha id, whatever
\* the answer submitted, every later validation attempt with the same id
\* returns false, in the client's CaptchaService.validateAnswer and in the
\* server's validateCaptcha.
C3_CaptchaIdSingleUse ==
  /\ (contactEvent.called /\ contactEvent.prior) => ~contactEvent.valid
  /\ (serverEvent.captchaCalled /\ serverEvent.captchaPrior)
       => ~serverEvent.captchaValid

\* C4: a run of onSubmit with a non-empty honeypot field sends no request,
\* writes nothing to the local backup, leaves the captcha challenge as it
\* was and shows no notification.
C4_HoneypotNonEmptyIsSilent ==
  [][(contactEvent'.op = "onSubmit" /\ honeypotField # <<>>)
       => /\ inFlight' = inFlight
          /\ postsSent' = postsSent
          /\ localBackup' = localBackup
          /\ currentChallenge' = currentChallenge
          /\ captchaChallenge' = captchaChallenge
          /\ attemptedIds' = attemptedIds
          /\ contactEvent'.toast = "none"]_vars

\* C4, amended: a run of onSubmit with a honeypot field that holds more
\* than white space sends no request, writes nothing to the local backup,
\* leaves the captcha challenge as it was and shows no notification.
C4_HoneypotFilledIsSilent ==
  [][(contactEvent'.op = "onSubmit" /\ Trim(honeypotField) # <<>>)
       => /\ inFlight' = inFlight
          /\ postsSent' = postsSent
          /\ localBackup' = localBackup
          /\ currentChallenge' = currentChallenge
          /\ captchaChallenge' = captchaChallenge
          /\ attemptedIds' = attemptedIds
          /\ contactEvent'.toast = "none"]_vars

\* onSubmit has just run with a filled honeypot on a form that was complete
\* and carried the right captcha answer.
C4_Witness ==
  /\ contactEvent.op = "onSubmit"
  /\ contactEvent.tripped
  /\ Trim(honeypotField) # <<>>
  /\ formData.name # <<>> /\ formData.email # <<>> /\ formData.message # <<>>
  /\ currentChallenge # NoChallenge
  /\ currentChallenge = captchaChallenge
  /\ ~parseInt(Trim(formData.captcha)).nan
  /\ parseInt(Trim(formData.captcha)).value = currentChallenge.answer

\* C5: once a valid POST /api/contact has been answered 200 with id i, a
\* listing that read the file holds a message with id i and the submitted
\* name, e-mail and message (as stored: trimmed, e-mail in lower case),
\* whose status is "new" until it is marked read; and when a mark-read of
\* id i has been answered 200, the stored messages with id i are "read"
\* with a readAt, and no other message has changed its status.
C5_ContactRoundTrip ==
  /\ (serverEvent.op = "adminMessages" /\ serverEvent.status = 200
       /\ serverEvent.loaded)
       => \A a \in acked :
            \E i \in 1..Len(serverEvent.messages) :
              LET m == serverEvent.messages[i] IN
                /\ m.id = a.id
                /\ m.name = a.name
                /\ m.email = a.email
                /\ m.message = a.message
                /\ (a.id \notin readAcked => m.status = "new")
  /\ (serverEvent.op = "markRead" /\ serverEvent.status = 200)
       => \A i \in 1..Len(messagesFile) :
            LET m == messagesFile[i] IN
              IF m.id = serverEvent.id
              THEN m.status = "read" /\ m.readAt # NoTime
              ELSE m.id \notin readAcked => m.status = "new"

\* C6: for every IP and every window, the first limiterMax requests to
\* /api/contact are not rejected by the limiter, and start a handler when
\* they pass validation; every later request of the window is answered 429
\* and neither starts a handler nor changes the stored messages.
C6_RateLimit ==
  [][serverEvent'.op = "contact"
       => LET n == hits[serverEvent'.ip] + 1 IN
            /\ n <= limiterMax
                 => /\ serverEvent'.status # 429
                    /\ validateContactData(serverEvent'.body)
                         => /\ serverEvent'.accepted
                            /\ BagCardinality(handlers')
                                 = BagCardinality(handlers) + 1
            /\ n > limiterMax
                 => /\ serverEvent'.status = 429
                    /\ handlers' = handlers
                    /\ messagesFile' = messagesFile
                    /\ acked' = acked]_vars

\* The eleventh request of a window, a valid one, has just been rejected,
\* after a request of the same window was accepted.
C6_Witness ==
  /\ serverEvent.op = "contact"
  /\ serverEvent.hit = limiterMax + 1
  /\ serverEvent.status = 429
  /\ validateContactData(serverEvent.body)
  /\ started > 0

\* C14: in every run of onSubmit the form fields are checked before the
\* CAPTCHA answer is validated: a submission with a missing field does not
\* reach CaptchaService.validateAnswer, so it never consumes the challenge.
C14_FieldsCheckedBeforeCaptcha ==
  (/\ contactEvent.op = "onSubmit"
   /\ ~contactEvent.tripped
   /\ (formData.name = <<>> \/ formData.email = <<>> \/ formData.message = <<>>))
  => ~contactEvent.called

\* C15: after the modal is opened and after every submission attempt that
\* fails (wrong or empty CAPTCHA answer, missing fields, backend or network
\* error) the challenge the component shows is a live challenge, the one
\* the CaptchaService currently holds.
C15_ShownChallengeIsCurrentAfterFailure ==
  (\/ contactEvent.op = "openModal"
   \/ contactEvent.op = "submitFailed"
   \/ (contactEvent.op = "onSubmit" /\ ~contactEvent.tripped
        /\ contactEvent.toast = "warning"))
  => (captchaChallenge = currentChallenge /\ currentChallenge # NoChallenge)

\* C16: when submitMessage ends in a network failure (the POST and its
\* retries failed) the submitted message is in the local-storage backup
\* list.
C16_FailedSubmissionBackedUp ==
  contactEvent.op = "submitFailed" =>
    \E i \in 1..Len(localBackup) : localBackup[i].id = contactEvent.id

\* C17: a request to GET /api/admin/messages or POST
\* /api/admin/messages/:id/read whose key is missing or differs from the
\* admin key is answered 401, returns no message and leaves the stored list
\* (and the handlers at work on it) as they were; a mark-read request with
\* the right key whose id matches no stored message is answered 404 and
\* leaves the stored list as it was.
C17_AdminRejections ==
  [][/\ (/\ serverEvent'.op \in {"adminMessages", "markRead", "markReadBegin"}
         /\ serverEvent'.key \in AdminKeys \ {ADMIN_KEY})
        => /\ serverEvent'.status = 401
           /\ serverEvent'.messages = <<>>
           /\ messagesFile' = messagesFile
           /\ handlers' = handlers
     /\ \A h \in BagToSet(handlers) :
          (/\ h.kind = "read" /\ h.pc = "load"
           /\ ~BagIn(h, handlers')
           /\ FindIndex(messagesFile, h.id) = 0)
          => /\ serverEvent'.op = "markRead"
             /\ serverEvent'.id = h.id
             /\ serverEvent'.status = 404
             /\ messagesFile' = messagesFile]_vars

\* A mark-read request with a guessed key for a message that is stored has
\* been answered 401.
C17_Witness ==
  /\ serverEvent.op = "markRead"
  /\ serverEvent.key = "guess"
  /\ serverEvent.status = 401
  /\ FindIndex(messagesFile, serverEvent.id) # 0

\* C18: when load A was started before load B and B's response resolved
\* before A's, then once both have settled the current language, the
\* dictionary and the persisted language are A's: the response that
\* resolves last decides, whatever load was started last.
C18_LastResponseWins ==
  (i18nEvent.op = "loadSuccess" /\ requests = EmptyBag)
  => /\ currentLanguageSignal = i18nEvent.lang
     /\ translationsSignal = Dict(i18nEvent.lang)
     /\ localStorageLanguage = i18nEvent.lang

\* Every load succeeded and all have settled; the response that resolved
\* last belongs to a load started before the last one.
C18_Witness ==
  /\ i18nEvent.op = "loadSuccess"
  /\ requests = EmptyBag
  /\ ~fetchFailed
  /\ lastRequested # NULL
  /\ lastRequested # i18nEvent.lang
  /\ currentLanguageSignal # lastRequested

\* C19: when a POST /api/contact handler is answered 200, then either its
\* read-modify-write cycle interleaved with another write (the file is no
\* longer what the handler loaded) and the file ends up as the handler's
\* stale copy plus its own message, the messages written meanwhile being
\* lost; or the cycle did not interleave, and then the file is what it was
\* plus exactly the new message, every earlier message unchanged.
C19_RaceLosesOneElseAppends ==
  [][\A h \in BagToSet(handlers) :
       (/\ h.kind = "contact" /\ h.pc = "save"
        /\ handlers' = handlers (-) SetToBag({h})
        /\ serverEvent'.op = "contactDone"
        /\ serverEvent'.id = h.id
        /\ serverEvent'.status = 200)
       => IF messagesFile = h.seen
          THEN messagesFile' = Append(messagesFile, h.newMessage)
          ELSE messagesFile' = Append(h.seen, h.newMessage)]_vars

\* C24: one call of MessageService.submitMessage sends at most one POST to
\* the backend, whether it succeeds or fails: the POSTs sent never outnumber
\* the submissions made.
C24_OnePostPerSubmission ==
  postsSent <= submissions

C27_ClientCaptchaAcceptedByServer ==
  (/\ serverEvent.op = "contact"
   /\ serverEvent.body.captchaId < 0
   /\ validateContactData(serverEvent.body)
   /\ LimiterAllows(serverEvent.hit))
  => serverEvent.status # 400

\* C30: on a first visit where country detection yields a language D other
\* than the default and no dictionary fetch fails, once every load started
\* during startup has settled the current language, the dictionary and the
\* persisted language are D's.
C30_StartupSettlesOnDetected ==
  (/\ phase = "running"
   /\ reloads = 0
   /\ bootStored = NULL
   /\ ~selectorInit
   /\ selections = 0
   /\ pcDetect = "done"
   /\ sessionAutoDetected # NULL
   /\ sessionAutoDetected # defaultLanguage
   /\ ~fetchFailed
   /\ requests = EmptyBag)
  => /\ currentLanguageSignal = sessionAutoDetected
     /\ translationsSignal = Dict(sessionAutoDetected)
     /\ localStorageLanguage = sessionAutoDetected

\* C25: while at least one dictionary load is in flight isLoading is true,
\* and a selectLanguage made while a load is in flight starts no load.
C25_LoadingWhileInFlight ==
  [][/\ (requests' # EmptyBag => isLoadingSignal')
     /\ (i18nEvent'.op = "selectLanguage" /\ requests # EmptyBag
          => requests' = requests)]_vars

\* C26: whenever the observable returned by setLanguage emits true the
\* dictionary is non-empty and is the one of the current language; when
\* neither the requested nor the default dictionary could be loaded it
\* emits false. (A request whose root is not the constructor's target was
\* started by setLanguage.)
C26_TrueMeansLoaded ==
  /\ (/\ i18nEvent.op \in {"bootstrap", "detected", "selectorInit",
                           "selectLanguage"}
      /\ \E k \in 1..Len(i18nEvent.emitted) : i18nEvent.emitted[k])
     => /\ translationsSignal # EmptyDict
        /\ translationsSignal = Dict(currentLanguageSignal)
  /\ (/\ i18nEvent.op = "loadError"
      /\ i18nEvent.root # ConstructorTarget(bootStored)
      /\ i18nEvent.lang = defaultLanguage)
     => i18nEvent.emitted = <<FALSE>>

\* The ids of a list of messages, in the list's order.
IdsOf(messages) == [i \in 1..Len(messages) |-> messages[i].id]

\* C22: the local backup never holds more than 100 messages and is always
\* the most recent (up to 100) saved messages in submission order.
C22_BackupIsRecentInOrder ==
  /\ Len(localBackup) <= localBackupLimit
  /\ IdsOf(localBackup) = IdsOf(LastN(savedLog, localBackupLimit))

\* C28: without a backend, every saved message is still in the backup at
\* its place, and a message differs from what was saved only by having
\* become read after markAsRead was called with its id.
C28_MarkAsReadKeepsOthers ==
  ~apiAvailable =>
    /\ Len(localBackup) = Len(LastN(savedLog, localBackupLimit))
    /\ \A i \in 1..Len(localBackup) :
         LET saved == LastN(savedLog, localBackupLimit)[i] IN
           \/ localBackup[i] = saved
           \/ /\ saved.id \in markedIds
              /\ localBackup[i] = [saved EXCEPT !.status = "read"]

\* The script tags that hold data of group g.
TagsOf(g) == {i \in 1..Len(jsonLd) : jsonLd[i].group = g}

\* C21: after any sequence of structured-data updates the document holds at
\* most one JSON-LD script per schema group, and the script of every group
\* that was written is present with the data written to it last.
C21_OneScriptPerGroup ==
  \A g \in SchemaGroups :
    /\ Cardinality(TagsOf(g)) <= 1
    /\ lastWritten[g] # NULL =>
         \E i \in TagsOf(g) : jsonLd[i].data = lastWritten[g]

\* C29: once a dictionary load has completed, TranslatePipe.transform(key,
\* params) returns what TranslationService.translate(key, params) returns
\* in the same state; a value cached earlier is not returned.
C29_PipeAgreesWithTranslate ==
  (pipeEvent.op = "transform" /\ pipeEvent.loaded)
  => pipeEvent.value = pipeEvent.expected

====
